---- MODULE Spec2Model ----
(***************************************************************************)
(* Container Health Tracker: the vulnerability resolution pipeline.        *)
(*                                                                         *)
(*   HealthCalculator.calculateHealthIndex   (pure scoring function)       *)
(*   RedHatClient.executeQuery               (retry loop of one call)      *)
(*   RedHatClient.findImageVulnerabilities   (pagination loop)             *)
(*   MonitoringOrchestrator.execute / processImage (run over the units)    *)
(*   NotificationService.send                (filter and channels)         *)
(*                                                                         *)
(* Each part has its own specification over the shared variables; the      *)
(* variables of the other parts stay at their initial value.               *)
(***************************************************************************)
EXTENDS Integers, Sequences, FiniteSets, TLC

VARIABLES
    \* --- HealthCalculator -------------------------------------------------
    cveRecords,         \* the list handed to calculateHealthIndex
    healthIndex,        \* its return value, None before the call
    \* --- RedHatClient.executeQuery ----------------------------------------
    attempt,            \* loop variable of the for loop (0-based)
    responses,          \* what every fetch of this call ended in, in order
    sleeps,             \* the delays passed to Utilities.sleep, in order
    lastError,          \* lastError.message, None before the first failure
    queryOutcome,       \* "running" | "returned" | "thrown"
    queryResult,        \* the data returned, or the message thrown
    \* --- RedHatClient.findImageVulnerabilities ----------------------------
    catalogTotal,       \* T: the total the catalog reports on every page
    catalogPageSize,    \* P: the page_size the catalog reports on every page
    allVulnerabilities, \* accumulator of the loop
    currentPage,        \* next page to request
    pagesRequested,     \* the page numbers requested so far, in order
    pageOutcome,        \* "running" | "returned" | "thrown"
    fetched,            \* what the caller received: <<>> or <<the list>>
    \* --- MonitoringOrchestrator and the spreadsheet -----------------------
    notificationService,\* TRUE when the orchestrator was given one
    configSheet,        \* rows of the Config sheet
    cveData,            \* rows of the CVE Data sheet
    historical,         \* rows of the Historical sheet
    logs,               \* rows of the Logs sheet
    units,              \* the combinations of the enabled rows, in loop order
    unitIndex,          \* index in units of the next unit to process
    monitoringRun,      \* the MonitoringRun record being filled
    errors,             \* this.errors
    notificationEvents, \* this.notificationEvents
    sendIndex,          \* index of the next event to send
    sendOutcomes,       \* history: how many sends ended in each outcome
    storageFaults,      \* spreadsheet calls that have thrown in this run
    pc,                 \* "start" | "units" | "notify" | "done"
    unitTrace,          \* history: what every unit of the run went through
    \* --- CatalogService: resolution of the latest build -------------------
    catalogImages,      \* the image listing the catalog holds for the query
    resolveStream,      \* the stream of the unit being resolved
    resolveMethod,      \* the method that was called, "none" before the call
    resolveOutcome,     \* "pending" | "returned" | "thrown"
    latestImage,        \* the value returned: null or the resolved build
    \* --- NotificationService.send -----------------------------------------
    serviceConfig,      \* the NotificationServiceConfig of the constructor
    sendEvent,          \* the event given to send: <<>> or <<the event>>
    channelResults,     \* history: the channels tried, in order, and how
    sendState,          \* "pending" | "returned"
    \* --- CatalogService.compareVersions -----------------------------------
    comparedTags,       \* the tags a, b, c given to the comparison
    comparison          \* its answers, <<>> before the calls

healthVars == <<cveRecords, healthIndex>>
queryVars  == <<attempt, responses, sleeps, lastError, queryOutcome, queryResult>>
pageVars   == <<catalogTotal, catalogPageSize, allVulnerabilities, currentPage,
                pagesRequested, pageOutcome, fetched>>
runVars    == <<notificationService, configSheet, cveData, historical, logs,
                units, unitIndex, monitoringRun, errors, notificationEvents,
                sendIndex, sendOutcomes, storageFaults, pc, unitTrace>>
resolveVars == <<catalogImages, resolveStream, resolveMethod, resolveOutcome,
                 latestImage>>
sendVars == <<serviceConfig, sendEvent, channelResults, sendState>>
compareVars == <<comparedTags, comparison>>
vars == <<healthVars, queryVars, pageVars, runVars, resolveVars, sendVars,
          compareVars>>

None == "none"

\* an optional value: <<>> when undefined, <<v>> when defined
Undefined == <<>>

\* the value of healthIndex before calculateHealthIndex has returned
NoHealthIndex == [pending |-> TRUE]

Max(a, b) == IF a >= b THEN a ELSE b


(***************************************************************************)
(* models/types.ts                                                         *)
(***************************************************************************)
Critical  == "Critical"
Important == "Important"
Moderate  == "Moderate"
Low       == "Low"
NoSeverity == "None"
Severity == {Critical, Important, Moderate, Low, NoSeverity}

HEALTHY  == "Healthy"
AT_RISK  == "At Risk"
CRITICAL == "Critical"
UNKNOWN  == "Unknown"
HealthStatus == {HEALTHY, AT_RISK, CRITICAL, UNKNOWN}

(***************************************************************************)
(* HealthCalculator.ts                                                     *)
(***************************************************************************)
SEVERITY_PENALTIES ==
    [s \in Severity |->
        CASE s = Critical  -> 20
          [] s = Important -> 10
          [] s = Moderate  -> 5
          [] s = Low       -> 1
          [] OTHER         -> 0]

\* cveRecords.filter(cve => cve.severity === sev).length
CountSeverity(records, sev) ==
    Cardinality({i \in DOMAIN records : records[i].severity = sev})

\* a plausible slip: the clamp at zero is forgotten
ScoreOf_NoClamp(totalPenalty) == 100 - totalPenalty

\* const score = Math.max(0, 100 - totalPenalty)
ScoreOf(totalPenalty) == Max(0, 100 - totalPenalty)

\* a plausible slip: the Important branch is lost
StatusOf_NoAtRisk(criticalCves, importantCves) ==
    IF criticalCves > 0 THEN CRITICAL ELSE HEALTHY

\* the if / else if / else on the counts
StatusOf(criticalCves, importantCves) ==
    IF criticalCves > 0 THEN CRITICAL
    ELSE IF importantCves > 0 THEN AT_RISK
    ELSE HEALTHY

calculateHealthIndex(records, previousScore) ==
    LET criticalCves  == CountSeverity(records, Critical)
        importantCves == CountSeverity(records, Important)
        moderateCves  == CountSeverity(records, Moderate)
        lowCves       == CountSeverity(records, Low)
        criticalPenalty  == criticalCves  * SEVERITY_PENALTIES[Critical]
        importantPenalty == importantCves * SEVERITY_PENALTIES[Important]
        moderatePenalty  == moderateCves  * SEVERITY_PENALTIES[Moderate]
        lowPenalty       == lowCves       * SEVERITY_PENALTIES[Low]
        totalPenalty == criticalPenalty + importantPenalty
                        + moderatePenalty + lowPenalty
        score == ScoreOf(totalPenalty)
    IN  [score         |-> score,
         status        |-> StatusOf(criticalCves, importantCves),
         criticalCves  |-> criticalCves,
         importantCves |-> importantCves,
         moderateCves  |-> moderateCves,
         lowCves       |-> lowCves,
         totalPenalty  |-> totalPenalty,
         statusChanged |-> previousScore # Undefined /\ score # previousScore[1]]

(***************************************************************************)
(* Inputs of the scoring function: every list of at most MaxShuffled       *)
(* records in any order, and the longer lists grouped by severity.         *)
(***************************************************************************)
MaxShuffled  == 3
MaxCritical  == 6
MaxImportant == 11
MaxModerate  == 2
MaxLow       == 2
MaxNone      == 1

MkRecords(sevs) ==
    [i \in 1..Len(sevs) |-> [cveId |-> i, severity |-> sevs[i]]]

Repeat(x, n) == [i \in 1..n |-> x]

ShuffledLists ==
    UNION {[1..n -> Severity] : n \in 0..MaxShuffled}

GroupedLists ==
    {Repeat(Critical, c) \o Repeat(Important, i) \o Repeat(Moderate, m)
        \o Repeat(Low, l) \o Repeat(NoSeverity, n) :
        c \in 0..MaxCritical, i \in 0..MaxImportant, m \in 0..MaxModerate,
        l \in 0..MaxLow, n \in 0..MaxNone}

HealthInputs == {MkRecords(s) : s \in ShuffledLists \cup GroupedLists}

IdleHealth == cveRecords = <<>> /\ healthIndex = NoHealthIndex
IdleQuery  == /\ attempt = 0 /\ responses = <<>> /\ sleeps = <<>>
              /\ lastError = [head |-> "", status |-> 0, text |-> {}]
              /\ queryOutcome = "idle" /\ queryResult = [kind |-> "none"]
IdlePages  == /\ catalogTotal = 0 /\ catalogPageSize = 1
              /\ allVulnerabilities = <<>> /\ currentPage = 0
              /\ pagesRequested = <<>> /\ pageOutcome = "idle"
              /\ fetched = <<>>

EmptyRun ==
    [imagesProcessed |-> 0, imagesSuccessful |-> 0, imagesFailed |-> 0,
     totalCvesDiscovered |-> 0, notificationsSent |-> 0,
     notificationsFailed |-> 0, status |-> "running"]

SendOutcomes == {"Success", "Failed", "Skipped", "throws"}

IdleResolve == /\ catalogImages = <<>> /\ resolveStream = <<>>
               /\ resolveMethod = "none" /\ resolveOutcome = "idle"
               /\ latestImage = [found |-> FALSE]
IdleRun    == /\ notificationService = FALSE /\ configSheet = <<>>
              /\ cveData = <<>> /\ historical = <<>> /\ logs = <<>>
              /\ units = <<>> /\ unitIndex = 1 /\ monitoringRun = EmptyRun
              /\ errors = <<>> /\ notificationEvents = <<>> /\ sendIndex = 1
              /\ sendOutcomes = [o \in SendOutcomes |-> 0]
              /\ storageFaults = 0 /\ pc = "idle" /\ unitTrace = <<>>
IdleSend   == /\ serviceConfig = <<>> /\ sendEvent = <<>>
              /\ channelResults = <<>> /\ sendState = "idle"
IdleCompare == comparedTags = <<>> /\ comparison = <<>>

InitHealth ==
    /\ cveRecords \in HealthInputs
    /\ healthIndex = NoHealthIndex
    /\ IdleQuery
    /\ IdlePages
    /\ IdleRun
    /\ IdleSend
    /\ IdleCompare
    /\ IdleResolve

\* one call of calculateHealthIndex, as processImage makes it (no previousScore)
Calculate ==
    /\ healthIndex = NoHealthIndex
    /\ healthIndex' = calculateHealthIndex(cveRecords, Undefined)
    /\ UNCHANGED <<cveRecords, queryVars, resolveVars, pageVars, runVars, sendVars, compareVars>>

NextHealth == Calculate

SpecHealth == InitHealth /\ [][NextHealth]_vars

(***************************************************************************)
(* RedHatClient.executeQuery                                               *)
(*                                                                         *)
(* A text (a response body, the message of an exception) is modelled by    *)
(* the set of the phrases it contains among those the catch block searches *)
(* for with String.includes; an error message is the phrase the code puts  *)
(* in front, the status code, and the text appended to it.                 *)
(***************************************************************************)
maxRetries  == 3
baseDelayMs == 1000

ClientErrorPhrase  == "Client error"
GraphQLErrorsPhrase == "GraphQL errors"
Texts == {{}, {ClientErrorPhrase}, {GraphQLErrorsPhrase}}

StatusCodes == {204, 302, 404, 429, 500, 503}
Payloads == {"d1", "d2"}

\* what one UrlFetchApp.fetch can end in
FetchResults ==
    \* fetch itself throws (DNS failure, timeout, ...)
    {[kind |-> "transport", status |-> 0, text |-> t, data |-> None] :
        t \in Texts}
    \cup
    \* a response with a status other than 200
    {[kind |-> "http", status |-> c, text |-> t, data |-> None] :
        c \in StatusCodes, t \in Texts}
    \cup
    \* 200 with a body JSON.parse rejects
    {[kind |-> "unparsable", status |-> 200, text |-> t, data |-> None] :
        t \in Texts}
    \cup
    \* 200 with a non-empty errors array
    {[kind |-> "errors", status |-> 200, text |-> t, data |-> None] :
        t \in Texts}
    \cup
    \* 200 with data and no errors
    {[kind |-> "data", status |-> 200, text |-> {}, data |-> d] :
        d \in Payloads}

Message(head, status, text) == [head |-> head, status |-> status, text |-> text]
NoError == Message("", 0, {})

\* message.includes(phrase)
Includes(message, phrase) == message.head = phrase \/ phrase \in message.text

\* the error thrown inside the try block for this fetch result; NoError when
\* the attempt reaches "return result.data"
AttemptError(r) ==
    IF r.kind = "transport" THEN Message("Exception", 0, r.text)
    ELSE IF r.status >= 500 THEN Message("Server error", r.status, r.text)
    ELSE IF r.status >= 400 THEN Message(ClientErrorPhrase, r.status, r.text)
    ELSE IF r.status # 200 THEN Message("Unexpected status", r.status, r.text)
    ELSE IF r.kind = "unparsable" THEN Message("SyntaxError", 0, r.text)
    ELSE IF r.kind = "errors" THEN Message(GraphQLErrorsPhrase, 0, r.text)
    ELSE NoError

\* a plausible slip: only client errors end the call
IsNotRetried_ClientOnly(message) == Includes(message, ClientErrorPhrase)

\* a plausible slip: only query-level errors end the call
IsNotRetried_GraphQLOnly(message) == Includes(message, GraphQLErrorsPhrase)

\* the test of the catch block that rethrows at once
IsNotRetried(message) ==
    \/ Includes(message, ClientErrorPhrase)
    \/ Includes(message, GraphQLErrorsPhrase)

NoResult == [kind |-> "none"]

\* a plausible slip: the exponent counts the attempts from 1
DelayMs_FromOne(failedAttempt) == baseDelayMs * (2 ^ (failedAttempt + 1))

\* const delayMs = baseDelayMs * Math.pow(2, attempt)
DelayMs(failedAttempt) == baseDelayMs * (2 ^ failedAttempt)

InitQuery ==
    /\ IdleHealth
    /\ attempt = 0
    /\ responses = <<>>
    /\ sleeps = <<>>
    /\ lastError = NoError
    /\ queryOutcome = "running"
    /\ queryResult = NoResult
    /\ IdlePages
    /\ IdleRun
    /\ IdleSend
    /\ IdleCompare
    /\ IdleResolve

\* one iteration of the for loop whose fetch yields data: return result.data
AttemptReturns(r) ==
    /\ queryOutcome = "running"
    /\ attempt < maxRetries
    /\ AttemptError(r) = NoError
    /\ responses' = Append(responses, r)
    /\ queryOutcome' = "returned"
    /\ queryResult' = [kind |-> "data", data |-> r.data]
    /\ UNCHANGED <<attempt, sleeps, lastError, healthVars, pageVars, resolveVars, runVars, sendVars, compareVars>>

\* one iteration that ends in the catch block; it rethrows, or sleeps and
\* goes round again, or leaves the loop for the final throw
AttemptFails(r) ==
    /\ queryOutcome = "running"
    /\ attempt < maxRetries
    /\ AttemptError(r) # NoError
    /\ responses' = Append(responses, r)
    /\ lastError' = AttemptError(r)
    /\ IF IsNotRetried(AttemptError(r))
       THEN /\ queryOutcome' = "thrown"
            /\ queryResult' = [kind |-> "error", attempts |-> attempt + 1,
                               message |-> AttemptError(r)]
            /\ UNCHANGED <<attempt, sleeps>>
       ELSE IF attempt < maxRetries - 1
       THEN /\ sleeps' = Append(sleeps, DelayMs(attempt))
            /\ attempt' = attempt + 1
            /\ UNCHANGED <<queryOutcome, queryResult>>
       ELSE /\ attempt' = attempt + 1
            /\ queryOutcome' = "thrown"
            /\ queryResult' = [kind |-> "error", attempts |-> maxRetries,
                               message |-> AttemptError(r)]
            /\ UNCHANGED sleeps
    /\ UNCHANGED <<healthVars, pageVars, resolveVars, runVars, sendVars, compareVars>>

NextQuery ==
    \/ \E r \in FetchResults : AttemptReturns(r)
    \/ \E r \in FetchResults : AttemptFails(r)

SpecQuery == InitQuery /\ [][NextQuery]_vars

(***************************************************************************)
(* RedHatClient.findImageVulnerabilities                                   *)
(*                                                                         *)
(* The catalog holds the records 1..catalogTotal of the build and serves   *)
(* them in pages of catalogPageSize, reporting the same total and          *)
(* page_size on every page.                                                *)
(***************************************************************************)
MaxTotal    == 7
MaxPageSize == 3

Min(a, b) == IF a <= b THEN a ELSE b

\* result.data of the response to {page: page}
PageData(total, pageSize, page) ==
    [i \in 1..Max(0, Min(pageSize, total - page * pageSize)) |->
        page * pageSize + i]

\* a plausible slip: the division rounds down
TotalPages_Floor(total, pageSize) == total \div pageSize

\* Math.ceil(result.total / result.page_size)
TotalPages(total, pageSize) == (total + pageSize - 1) \div pageSize

\* a plausible slip: the loop goes on while the page counter has not passed
\* the number of pages
HasMorePages_Inclusive(page, totalPages) == page <= totalPages

\* hasMorePages = currentPage < totalPages, after currentPage++
HasMorePages(page, totalPages) == page < totalPages

InitPages ==
    /\ IdleHealth
    /\ IdleQuery
    /\ catalogTotal \in 0..MaxTotal
    /\ catalogPageSize \in 1..MaxPageSize
    /\ allVulnerabilities = <<>>
    /\ currentPage = 0
    /\ pagesRequested = <<>>
    /\ pageOutcome = "running"
    /\ fetched = <<>>
    /\ IdleRun
    /\ IdleSend
    /\ IdleCompare
    /\ IdleResolve

\* the severity the catalog reports for its record i
CatalogSeverity(i) ==
    <<Critical, Important, Moderate, Low, NoSeverity>>[(i % 5) + 1]

\* CatalogService.fetchImageVulnerabilities: the map over what the client
\* returned
MapVulnerabilities(vulnerabilities) ==
    [i \in 1..Len(vulnerabilities) |->
        [cveId |-> vulnerabilities[i],
         severity |-> CatalogSeverity(vulnerabilities[i])]]

\* one iteration of the while loop whose executeQuery returns; after the
\* last page the method returns the accumulator to its caller
FetchPage ==
    /\ pageOutcome = "running"
    /\ pagesRequested' = Append(pagesRequested, currentPage)
    /\ allVulnerabilities' = allVulnerabilities
            \o PageData(catalogTotal, catalogPageSize, currentPage)
    /\ currentPage' = currentPage + 1
    /\ pageOutcome' =
         IF HasMorePages(currentPage', TotalPages(catalogTotal, catalogPageSize))
         THEN "running" ELSE "returned"
    /\ fetched' =
         IF pageOutcome' = "returned"
         THEN <<MapVulnerabilities(allVulnerabilities')>> ELSE fetched
    /\ UNCHANGED <<catalogTotal, catalogPageSize, healthVars, queryVars, resolveVars, runVars, sendVars, compareVars>>

\* a plausible slip: the loop catches the failure and returns what it has
FetchPageThrows_ReturnsPartial ==
    /\ pageOutcome = "running"
    /\ pagesRequested' = Append(pagesRequested, currentPage)
    /\ pageOutcome' = "thrown"
    /\ fetched' = <<MapVulnerabilities(allVulnerabilities)>>
    /\ UNCHANGED <<catalogTotal, catalogPageSize, allVulnerabilities,
                   currentPage, healthVars, queryVars, resolveVars, runVars, sendVars, compareVars>>

\* one iteration whose executeQuery throws: nothing catches the exception
\* inside findImageVulnerabilities or fetchImageVulnerabilities, so it
\* leaves both and the caller's cveRecords is never assigned
FetchPageThrows ==
    /\ pageOutcome = "running"
    /\ pagesRequested' = Append(pagesRequested, currentPage)
    /\ pageOutcome' = "thrown"
    /\ UNCHANGED <<catalogTotal, catalogPageSize, allVulnerabilities,
                   currentPage, fetched, healthVars, queryVars, resolveVars, runVars, sendVars, compareVars>>

\* processImage step 4: the caller scores the list it received
ScoreFetched ==
    /\ fetched # <<>>
    /\ healthIndex = NoHealthIndex
    /\ cveRecords' = fetched[1]
    /\ healthIndex' = calculateHealthIndex(fetched[1], Undefined)
    /\ UNCHANGED <<queryVars, resolveVars, pageVars, runVars, sendVars, compareVars>>

NextPages == FetchPage \/ FetchPageThrows \/ ScoreFetched

SpecPages == InitPages /\ [][NextPages]_vars

(***************************************************************************)
(* CatalogService: version parsing and ordering                            *)
(*                                                                         *)
(* A tag is the sequence of its characters.                                *)
(***************************************************************************)
Tag_4_9_0_1  == <<"4", ".", "9", ".", "0", "-", "1">>
Tag_4_9_0_2  == <<"4", ".", "9", ".", "0", "-", "2">>
Tag_4_9_0    == <<"4", ".", "9", ".", "0">>
Tag_4_9      == <<"4", ".", "9">>
Tag_4_9_5    == <<"4", ".", "9", ".", "5">>
Tag_4_10_0   == <<"4", ".", "1", "0", ".", "0">>
Tag_4_90_1   == <<"4", ".", "9", "0", ".", "1">>
Tag_V4_9_5   == <<"V", "4", ".", "9", ".", "5">>
Tag_4_9_rc1  == <<"4", ".", "9", "-", "r", "c", "1">>
Tag_rc       == <<"r", "c">>
Tag_latest   == <<"l", "a", "t", "e", "s", "t">>

Tags == {Tag_4_9_0_1, Tag_4_9_0_2, Tag_4_9_0, Tag_4_9, Tag_4_9_5, Tag_4_10_0,
         Tag_4_90_1, Tag_V4_9_5, Tag_4_9_rc1, Tag_rc, Tag_latest}

Digits == <<"0", "1", "2", "3", "4", "5", "6", "7", "8", "9">>
IsDigit(c) == \E d \in 1..10 : Digits[d] = c
DigitValue(c) == (CHOOSE d \in 1..10 : Digits[d] = c) - 1

\* the result of parseInt on a string without a leading digit
NaN == -1

\* parseInt(s, 10) on a string of the characters above: the value of the
\* longest run of leading digits, NaN when there is none
RECURSIVE LeadingDigits(_, _)
LeadingDigits(s, acc) ==
    IF s # <<>> /\ IsDigit(Head(s))
    THEN LeadingDigits(Tail(s), acc * 10 + DigitValue(Head(s)))
    ELSE acc
parseInt(s) ==
    IF s # <<>> /\ IsDigit(Head(s)) THEN LeadingDigits(s, 0) ELSE NaN

\* String.prototype.split(sep) for a one-character separator
RECURSIVE Split(_, _)
Split(s, sep) ==
    IF \A i \in 1..Len(s) : s[i] # sep
    THEN <<s>>
    ELSE LET k == CHOOSE i \in 1..Len(s) :
                     s[i] = sep /\ \A j \in 1..(i - 1) : s[j] # sep
         IN  <<SubSeq(s, 1, k - 1)>> \o Split(SubSeq(s, k + 1, Len(s)), sep)

\* String.prototype.toLowerCase on the characters above
toLowerCase(s) == [i \in 1..Len(s) |-> IF s[i] = "V" THEN "v" ELSE s[i]]

\* version.toLowerCase().replace(/^v/, '')
StripLeadingV(version) ==
    LET v == toLowerCase(version)
    IN  IF v # <<>> /\ Head(v) = "v" THEN Tail(v) ELSE v

\* parseVersion: {segments, build}, build null is <<>> and build n is <<n>>
parseVersion(version) ==
    LET parts == Split(StripLeadingV(version), "-")
        mainVersion == parts[1]
        raw == Split(mainVersion, ".")
        parsed == [i \in 1..Len(raw) |-> parseInt(raw[i])]
        IsNumber(n) == n # NaN
    IN  [segments |-> SelectSeq(parsed, IsNumber),
         build |-> IF Len(parts) >= 2 /\ parts[2] # <<>>
                      /\ parseInt(parts[2]) # NaN
                   THEN <<parseInt(parts[2])>> ELSE <<>>]

\* parts.segments[i] || 0, for the 1-based index i
SegmentAt(segments, i) == IF i <= Len(segments) THEN segments[i] ELSE 0

\* the comparison of the build numbers, reached when all segments are equal
CompareBuilds(build1, build2) ==
    IF build1 # <<>> /\ build2 # <<>>
    THEN IF build1[1] > build2[1] THEN 1
         ELSE IF build1[1] < build2[1] THEN -1 ELSE 0
    ELSE IF build1 # <<>> THEN 1
    ELSE IF build2 # <<>> THEN -1
    ELSE 0

\* a plausible slip: when only one of the two has a build number the answer
\* is 1, whichever of the two it is
compareVersions_OneBuildIsNewer(v1, v2) ==
    LET parts1 == parseVersion(v1)
        parts2 == parseVersion(v2)
        n == Max(Len(parts1.segments), Len(parts2.segments))
        differ == {i \in 1..n : SegmentAt(parts1.segments, i)
                                    # SegmentAt(parts2.segments, i)}
    IN  IF differ # {}
        THEN LET k == CHOOSE i \in differ : \A j \in differ : i <= j
             IN  IF SegmentAt(parts1.segments, k) > SegmentAt(parts2.segments, k)
                 THEN 1 ELSE -1
        ELSE IF parts1.build # <<>> /\ parts2.build # <<>>
        THEN CompareBuilds(parts1.build, parts2.build)
        ELSE IF parts1.build # <<>> \/ parts2.build # <<>> THEN 1
        ELSE 0

\* a plausible slip: the build numbers are not compared
compareVersions_NoBuild(v1, v2) ==
    LET s1 == parseVersion(v1).segments
        s2 == parseVersion(v2).segments
        n == Max(Len(s1), Len(s2))
        differ == {i \in 1..n : SegmentAt(s1, i) # SegmentAt(s2, i)}
    IN  IF differ # {}
        THEN LET k == CHOOSE i \in differ : \A j \in differ : i <= j
             IN  IF SegmentAt(s1, k) > SegmentAt(s2, k) THEN 1 ELSE -1
        ELSE 0

\* compareVersions: positive if v1 > v2, negative if v1 < v2, zero if equal
compareVersions(v1, v2) ==
    LET parts1 == parseVersion(v1)
        parts2 == parseVersion(v2)
        n == Max(Len(parts1.segments), Len(parts2.segments))
        differ == {i \in 1..n : SegmentAt(parts1.segments, i)
                                    # SegmentAt(parts2.segments, i)}
    IN  IF differ # {}
        THEN LET k == CHOOSE i \in differ : \A j \in differ : i <= j
             IN  IF SegmentAt(parts1.segments, k) > SegmentAt(parts2.segments, k)
                 THEN 1 ELSE -1
        ELSE CompareBuilds(parts1.build, parts2.build)

(***************************************************************************)
(* CatalogService: resolution of the latest build                          *)
(*                                                                         *)
(* catalogImages is what the catalog holds for the registry, repository    *)
(* and architecture of the query (the architecture filter is in the query  *)
(* itself); creation_date is the catalog's, the query does not ask for it. *)
(***************************************************************************)
MaxImages == 2

CreationDates == {1, 2}

\* image.repositories: a list of repositories, each the list of its tags
RepositoryLists ==
    {<<>>, << <<>> >>, << <<Tag_latest>> >>,
     << <<Tag_4_9_0_1>> >>, << <<Tag_4_9_0_2>> >>, << <<Tag_4_9_0>> >>,
     << <<Tag_4_9>> >>, << <<Tag_4_9_5>> >>, << <<Tag_4_10_0>> >>,
     << <<Tag_4_9_rc1>> >>, << <<Tag_rc>> >>,
     << <<Tag_latest, Tag_V4_9_5>> >>,
     << <<Tag_4_90_1>>, <<Tag_4_9_0>> >>,
     << <<Tag_4_9_0_1, Tag_4_9_0_2, Tag_4_9_0>> >>}

Listings ==
    UNION {{[i \in 1..n |-> [id |-> i,
                             creation_date |-> dates[i],
                             repositories |-> repositories[i]]] :
               dates \in [1..n -> CreationDates],
               repositories \in [1..n -> RepositoryLists]} :
           n \in 0..MaxImages}

Stream_latest == Tag_latest
Stream_4_9    == <<"4", ".", "9">>
Stream_4      == <<"4">>
Streams == {Stream_latest, Stream_4_9, Stream_4}

\* the value null
Null == [found |-> FALSE]

RECURSIVE Concat(_)
Concat(lists) ==
    IF lists = <<>> THEN <<>> ELSE Head(lists) \o Concat(Tail(lists))

\* the three nested loops of findLatestImage: every (image, tag) with a
\* tag name that is not empty and not 'latest', in listing order
TagsOfImage(image) ==
    LET Named(tag) == tag # <<>> /\ tag # Tag_latest
        OfRepository(tags) ==
            LET kept == SelectSeq(tags, Named)
            IN  [k \in 1..Len(kept) |-> [image |-> image, tag |-> kept[k]]]
    IN  Concat([r \in 1..Len(image.repositories) |->
                   OfRepository(image.repositories[r])])
ImagesWithTags(images) ==
    Concat([i \in 1..Len(images) |-> TagsOfImage(images[i])])

\* imageWithTags.sort((a, b) => this.compareVersions(b.tag, a.tag)): the
\* sort is stable, an element goes behind those that do not compare lower
RECURSIVE SortByVersion(_)
SortByVersion(pairs) ==
    IF pairs = <<>> THEN <<>>
    ELSE LET sorted == SortByVersion(SubSeq(pairs, 1, Len(pairs) - 1))
             x == pairs[Len(pairs)]
             k == Cardinality({i \in 1..Len(sorted) :
                                  compareVersions(x.tag, sorted[i].tag) <= 0})
         IN  SubSeq(sorted, 1, k) \o <<x>> \o SubSeq(sorted, k + 1, Len(sorted))

\* the CatalogImage built from a pair
CatalogImageOf(pair) ==
    [found |-> TRUE, imageId |-> pair.image.id, version |-> pair.tag]

\* findLatestImage once the client has returned the listing
findLatestImage(images) ==
    IF images = <<>> THEN Null
    ELSE LET imageWithTags == ImagesWithTags(images)
         IN  IF imageWithTags = <<>> THEN Null
             ELSE CatalogImageOf(SortByVersion(imageWithTags)[1])

\* the stream as a version prefix of the tag: "4.9" accepts "4.9.0-1" and
\* "4.9.2" but not "4.10.0"
MatchesStream(tag, stream) ==
    /\ Len(tag) >= Len(stream)
    /\ SubSeq(tag, 1, Len(stream)) = stream
    /\ Len(tag) > Len(stream) => tag[Len(stream) + 1] \in {".", "-"}

\* a tag without any numeric segment
IsMalformed(tag) == parseVersion(tag).segments = <<>>

\* a plausible slip: the stream is not looked at
SurvivesFiltering_AnyStream(tag, stream) == ~IsMalformed(tag)

\* the tags that take part in the comparison for a stream
SurvivesFiltering(tag, stream) ==
    /\ stream # Stream_latest => MatchesStream(tag, stream)
    /\ ~IsMalformed(tag)

\* findLatestImageInStream once the client has returned the listing: the
\* maximal surviving pair, ties broken by the more recent creation date,
\* then by listing order
findLatestImageInStream(images, stream) ==
    LET all == ImagesWithTags(images)
        Survives(pair) == SurvivesFiltering(pair.tag, stream)
        pairs == SelectSeq(all, Survives)
        Beats(i, j) ==
            LET c == compareVersions(pairs[i].tag, pairs[j].tag)
            IN  \/ c > 0
                \/ c = 0 /\ pairs[i].image.creation_date
                              > pairs[j].image.creation_date
                \/ c = 0 /\ pairs[i].image.creation_date
                              = pairs[j].image.creation_date /\ i <= j
    IN  IF pairs = <<>> THEN Null
        ELSE CatalogImageOf(pairs[CHOOSE i \in 1..Len(pairs) :
                                     \A j \in 1..Len(pairs) : Beats(i, j)])

ResolveMethods == {"findLatestImage", "findLatestImageInStream"}

InitResolve ==
    /\ IdleHealth
    /\ IdleQuery
    /\ IdlePages
    /\ IdleRun
    /\ IdleSend
    /\ IdleCompare
    /\ catalogImages \in Listings
    /\ resolveStream \in Streams
    /\ resolveMethod = "none"
    /\ resolveOutcome = "pending"
    /\ latestImage = Null

\* findRepositoryImages throws 'No images found' on an empty listing
ListingThrows(images) == images = <<>>

\* the call of a resolution method whose catalog request succeeds
Resolve(method) ==
    /\ resolveOutcome = "pending"
    /\ resolveMethod' = method
    /\ IF ListingThrows(catalogImages)
       THEN /\ resolveOutcome' = "threw No images found"
            /\ UNCHANGED latestImage
       ELSE /\ resolveOutcome' = "returned"
            /\ latestImage' =
                 IF method = "findLatestImage"
                 THEN findLatestImage(catalogImages)
                 ELSE findLatestImageInStream(catalogImages, resolveStream)
    /\ UNCHANGED <<catalogImages, resolveStream, healthVars, queryVars,
                   pageVars, runVars, sendVars, compareVars>>

\* the call of a resolution method whose catalog request fails in
\* executeQuery
ResolveRequestFails(method) ==
    /\ resolveOutcome = "pending"
    /\ resolveMethod' = method
    /\ resolveOutcome' = "threw request failed"
    /\ UNCHANGED <<catalogImages, resolveStream, latestImage, healthVars,
                   queryVars, pageVars, runVars, sendVars, compareVars>>

NextResolve ==
    \/ \E method \in ResolveMethods : Resolve(method)
    \/ \E method \in ResolveMethods : ResolveRequestFails(method)

SpecResolve == InitResolve /\ [][NextResolve]_vars

(***************************************************************************)
(* CatalogService.compareVersions on its own: three tags, compared pair by *)
(* pair and sorted by findLatestImage from a listing of three builds that  *)
(* carry one of them each, in every listing order.                         *)
(***************************************************************************)
ListingOrders ==
    {order \in [1..3 -> 1..3] : \A i, j \in 1..3 : order[i] = order[j] => i = j}

\* the listing of the builds 1, 2, 3 in the given order, build i tagged
\* tagList[i]
ListingOf(tagList, order) ==
    [k \in 1..3 |-> [id |-> order[k], creation_date |-> 1,
                     repositories |-> << <<tagList[order[k]]>> >>]]

InitCompare ==
    /\ IdleHealth
    /\ IdleQuery
    /\ IdlePages
    /\ IdleRun
    /\ IdleSend
    /\ IdleResolve
    /\ comparedTags \in [1..3 -> Tags]
    /\ comparison = <<>>

\* the calls of compareVersions on the pairs, and of findLatestImage on the
\* listings
CompareTags ==
    /\ comparison = <<>>
    /\ LET a == comparedTags[1]
           b == comparedTags[2]
           c == comparedTags[3]
       IN  comparison' =
             <<[ab |-> compareVersions(a, b), ba |-> compareVersions(b, a),
                bc |-> compareVersions(b, c), ac |-> compareVersions(a, c),
                latest |-> [order \in ListingOrders |->
                              findLatestImage(ListingOf(comparedTags, order))]]>>
    /\ UNCHANGED <<comparedTags, healthVars, queryVars, pageVars, runVars,
                   resolveVars, sendVars>>

NextCompare == CompareTags

SpecCompare == InitCompare /\ [][NextCompare]_vars

(***************************************************************************)
(* SheetsRepository: the spreadsheet behind the run                        *)
(***************************************************************************)
MaxStorageFaults == 1

\* rows a Config sheet can hold; a blank Stream or Architecture cell is <<>>
UbiRow ==
    [imageName |-> "ubi8/ubi", enabled |-> TRUE,
     streamCell |-> <<>>, architectureCell |-> <<>>]
OseCliRow ==
    [imageName |-> "openshift4/ose-cli", enabled |-> TRUE,
     streamCell |-> <<"4.9", "latest">>,
     architectureCell |-> <<"amd64", "arm64">>]
DisabledRow ==
    [imageName |-> "ubi9/ubi", enabled |-> FALSE,
     streamCell |-> <<"latest">>, architectureCell |-> <<"amd64">>]

\* a row whose Image Name cell is empty
BlankRow ==
    [imageName |-> "", enabled |-> TRUE,
     streamCell |-> <<"latest">>, architectureCell |-> <<"amd64">>]

\* the Config sheets of the runs explored: empty, one image, a disabled row
\* before an enabled one, a row without image name after one, the same
\* image listed twice, and one image with two streams and two architectures
ConfigSheets ==
    {<<>>, <<UbiRow>>, <<DisabledRow, UbiRow>>, <<UbiRow, BlankRow>>,
     <<UbiRow, UbiRow>>, <<OseCliRow>>}

parseCommaSeparated(value, defaultValue) ==
    IF value = <<>> THEN defaultValue ELSE value

IsEnabled(row) == row.enabled

\* .filter(row => row[0])
HasImageName(row) == row.imageName # ""

readConfig(sheet) ==
    LET data == SelectSeq(sheet, HasImageName)
    IN  SelectSeq([i \in 1..Len(data) |->
                     [imageName     |-> data[i].imageName,
                      enabled       |-> data[i].enabled,
                      streams       |-> parseCommaSeparated(data[i].streamCell,
                                                            <<"latest">>),
                      architectures |-> parseCommaSeparated(
                                            data[i].architectureCell,
                                            <<"amd64">>)]],
                  IsEnabled)

SameCombination(row, imageName, architecture, stream) ==
    /\ row.imageName = imageName
    /\ row.architecture = architecture
    /\ row.stream = stream

\* a plausible slip: the deprecated delete by image name alone is called
deleteRowsForImage(sheet, imageName, architecture, stream) ==
    LET Keep(row) == row.imageName # imageName
    IN  SelectSeq(sheet, Keep)

\* the rows left after the delete loop
deleteRowsForImageCombination(sheet, imageName, architecture, stream) ==
    LET Keep(row) == ~SameCombination(row, imageName, architecture, stream)
    IN  SelectSeq(sheet, Keep)

\* the sheet after writeCVEData has completed
writeCVEData(sheet, imageName, architecture, stream, version, records, score, status) ==
    deleteRowsForImageCombination(sheet, imageName, architecture, stream)
    \o [i \in 1..Len(records) |->
          [imageName    |-> imageName,
           architecture |-> architecture,
           stream       |-> stream,
           version      |-> version,
           cveId        |-> records[i].cveId,
           severity     |-> records[i].severity,
           healthIndex  |-> score,
           healthStatus |-> status]]

\* a plausible slip: the snapshot replaces the rows of its combination, as
\* the rows of the CVE Data sheet are replaced
appendHistoricalSnapshot_Replace(sheet, snapshot) ==
    Append(deleteRowsForImageCombination(sheet, snapshot.imageName,
               snapshot.architecture, snapshot.stream), snapshot)

appendHistoricalSnapshot(sheet, snapshot) == Append(sheet, snapshot)

appendLogEntry(sheet, logEntry) == Append(sheet, logEntry)

\* null is <<>>, a result r is <<r>>
\* a plausible slip: the oldest row of the combination is returned
getPreviousHealthStatus_First(sheet, imageName, architecture, stream) ==
    LET Matches(row) == SameCombination(row, imageName, architecture, stream)
        imageRows == SelectSeq(sheet, Matches)
    IN  IF Len(imageRows) = 0 THEN <<>>
        ELSE <<[status |-> imageRows[1].healthStatus,
                score  |-> imageRows[1].healthIndex]>>

getPreviousHealthStatus(sheet, imageName, architecture, stream) ==
    LET Matches(row) == SameCombination(row, imageName, architecture, stream)
        imageRows == SelectSeq(sheet, Matches)
    IN  IF Len(imageRows) = 0 THEN <<>>
        ELSE <<[status |-> imageRows[Len(imageRows)].healthStatus,
                score  |-> imageRows[Len(imageRows)].healthIndex]>>

(***************************************************************************)
(* MonitoringOrchestrator                                                  *)
(***************************************************************************)
REGISTRY == "registry.access.redhat.com"

\* a plausible slip: the loop over the architectures is the outer one
generateCombinations_ArchitecturesOuter(imageName, streams, architectures) ==
    [k \in 1..(Len(streams) * Len(architectures)) |->
        [imageName    |-> imageName,
         stream       |-> streams[((k - 1) % Len(streams)) + 1],
         architecture |-> architectures[((k - 1) \div Len(streams)) + 1]]]

generateCombinations(imageName, streams, architectures) ==
    [k \in 1..(Len(streams) * Len(architectures)) |->
        [imageName    |-> imageName,
         stream       |-> streams[((k - 1) \div Len(architectures)) + 1],
         architecture |-> architectures[((k - 1) % Len(architectures)) + 1]]]

\* the units of the two nested for loops of execute, in order
RECURSIVE AllCombinations(_)
AllCombinations(configRows) ==
    IF configRows = <<>> THEN <<>>
    ELSE generateCombinations(Head(configRows).imageName,
                              Head(configRows).streams,
                              Head(configRows).architectures)
         \o AllCombinations(Tail(configRows))

\* what the catalog can hold for a resolved build
UnitRecordLists ==
    {<<>>,
     <<[cveId |-> "CVE-2024-0001", severity |-> Important]>>,
     <<[cveId |-> "CVE-2024-0002", severity |-> Critical],
       [cveId |-> "CVE-2024-0003", severity |-> Low]>>}

\* the records of the units on which a spreadsheet call is made to throw
FaultedRecordLists == {records \in UnitRecordLists : Len(records) = 2}

\* what an earlier run found for every build, when there was one
PriorRecordLists == {records \in UnitRecordLists : records # <<>>}

\* the build findLatestImageInStream resolves
LatestImage == [imageId |-> "65a1f0c2e4b0a1b2c3d4e5f6", version |-> "1.0-1"]

\* the CatalogImage of the build resolved for a combination: every
\* combination has a build of its own, with its _id and its digest
LatestImageOf(unit) ==
    [imageId       |-> <<"_id", unit.imageName, unit.architecture, unit.stream>>,
     dockerImageId |-> <<"sha256", unit.imageName, unit.architecture,
                         unit.stream>>,
     version       |-> LatestImage.version]

\* a plausible slip: the query is made with the digest of the build
QueriedId_DockerImageId(build) == build.dockerImageId

\* fetchImageVulnerabilities(latestImage.imageId, ...): the id the queries of
\* findImageVulnerabilities carry
QueriedId(build) == build.imageId

\* what the catalog answers: the records it holds for the build when asked
\* by its _id, none for any other id
ImageVulnerabilities(imageId, unit, held) ==
    IF imageId = LatestImageOf(unit).imageId THEN held ELSE <<>>

NotFoundRecord ==
    [cveId |-> "ERROR: Not found in registry", severity |-> NoSeverity]

\* a plausible slip: the placeholder record is scored like a fetched one
PlaceholderHealth_Scored ==
    [score  |-> calculateHealthIndex(<<NotFoundRecord>>, Undefined).score,
     status |-> calculateHealthIndex(<<NotFoundRecord>>, Undefined).status]

\* the health index and status written with the placeholder record
PlaceholderHealth == [score |-> 0, status |-> UNKNOWN]

\* a plausible slip: the row read is not used
PreviousStatusOf_NeverFound(previousHealth) == UNKNOWN

\* previousHealth?.status || HealthStatus.UNKNOWN
\* a plausible slip: a combination without history counts as Healthy
PreviousStatusOf_HealthyDefault(previousHealth) ==
    IF previousHealth = <<>> \/ previousHealth[1].status = "" THEN HEALTHY
    ELSE previousHealth[1].status

\* previousHealth?.status || HealthStatus.UNKNOWN
PreviousStatusOf(previousHealth) ==
    IF previousHealth = <<>> \/ previousHealth[1].status = "" THEN UNKNOWN
    ELSE previousHealth[1].status

\* previousHealth?.score || 0
PreviousScoreOf(previousHealth) ==
    IF previousHealth = <<>> THEN 0 ELSE previousHealth[1].score

\* a plausible slip: a first observation is never a change
StatusChanged_NotOnFirstSight(previousStatus, currentStatus) ==
    previousStatus # UNKNOWN /\ previousStatus # currentStatus

\* a plausible slip: every scored unit counts as changed
StatusChanged_Always(previousStatus, currentStatus) == TRUE

\* const statusChanged = previousStatus !== healthIndex.status
StatusChanged(previousStatus, currentStatus) == previousStatus # currentStatus

\* a plausible slip: an event is queued for every unit
ShouldQueue_Always(statusChanged, service) == service

\* if (statusChanged && this.notificationService)
ShouldQueue(statusChanged, service) == statusChanged /\ service

StatusChangeDescription(statusChanged, previousStatus, currentStatus) ==
    IF statusChanged THEN <<previousStatus, "->", currentStatus>>
    ELSE <<"No change">>

HistoricalRow(unit, version, records, health, description) ==
    [imageName      |-> unit.imageName,
     architecture   |-> unit.architecture,
     stream         |-> unit.stream,
     version        |-> version,
     totalCves      |-> Len(records),
     criticalCount  |-> health.criticalCves,
     importantCount |-> health.importantCves,
     moderateCount  |-> health.moderateCves,
     lowCount       |-> health.lowCves,
     healthIndex    |-> health.score,
     healthStatus   |-> health.status,
     statusChange   |-> description]

NotificationEventFor(index, unit, records, health, previousStatus, previousScore) ==
    [unit              |-> index,
     imageId           |-> LatestImageOf(unit).imageId,
     repository        |-> unit.imageName,
     architecture      |-> unit.architecture,
     stream            |-> unit.stream,
     previousStatus    |-> previousStatus,
     currentStatus     |-> health.status,
     previousScore     |-> previousScore,
     currentScore      |-> health.score,
     criticalCveCount  |-> health.criticalCves,
     importantCveCount |-> health.importantCves,
     affectedCves      |-> [i \in 1..Len(records) |-> records[i].cveId],
     channels          |-> <<>>,
     deliveryStatus    |-> "Pending",
     deliveryAttempts  |-> 0]

\* the two sheets after steps 5 to 8 of processImage ran to the end
ScoredWrites(store, unit, records) ==
    LET health == calculateHealthIndex(records, Undefined)
        previousHealth == getPreviousHealthStatus(store.historical,
                              unit.imageName, unit.architecture, unit.stream)
        previousStatus == PreviousStatusOf(previousHealth)
        statusChanged == StatusChanged(previousStatus, health.status)
    IN  [cveData |-> writeCVEData(store.cveData, unit.imageName,
                         unit.architecture, unit.stream, LatestImage.version,
                         records, health.score, health.status),
         historical |-> appendHistoricalSnapshot(store.historical,
                         HistoricalRow(unit, LatestImage.version, records,
                             health,
                             StatusChangeDescription(statusChanged,
                                 previousStatus, health.status)))]

\* the sheets an earlier run leaves when every unit succeeded on `records`
RECURSIVE StoreAfterRun(_, _, _)
StoreAfterRun(store, unitSeq, records) ==
    IF unitSeq = <<>> THEN store
    ELSE StoreAfterRun(ScoredWrites(store, Head(unitSeq), records),
                       Tail(unitSeq), records)

EmptyStore == [cveData |-> <<>>, historical |-> <<>>]

\* a plausible slip: a failed unit ends the loop
AfterUnit_StopOnFailure(index, count, success) ==
    IF index >= count \/ ~success THEN "notify" ELSE "units"

\* the for loops go on to the next combination whatever the unit returned
AfterUnit(index, count, success) ==
    IF index >= count THEN "notify" ELSE "units"

mapRunStatus(status) ==
    IF status = "completed" THEN "Success"
    ELSE IF status = "partial" THEN "Partial"
    ELSE "Failed"

LogEntry(run, errorList) ==
    [status            |-> mapRunStatus(run.status),
     imagesChecked     |-> run.imagesProcessed,
     successful        |-> run.imagesSuccessful,
     failed            |-> run.imagesFailed,
     cvesFound         |-> run.totalCvesDiscovered,
     notificationsSent |-> run.notificationsSent,
     errors            |-> errorList]

InitRun ==
    /\ IdleSend
    /\ IdleCompare
    /\ IdleHealth
    /\ IdleQuery
    /\ IdlePages
    /\ IdleResolve
    /\ notificationService \in BOOLEAN
    /\ configSheet \in ConfigSheets
    /\ \E store \in {EmptyStore} \cup
            {StoreAfterRun(EmptyStore,
                           AllCombinations(readConfig(configSheet)), records) :
                records \in PriorRecordLists} :
          /\ cveData = store.cveData
          /\ historical = store.historical
    /\ logs = <<>>
    /\ units = <<>>
    /\ unitIndex = 1
    /\ monitoringRun = EmptyRun
    /\ errors = <<>>
    /\ notificationEvents = <<>>
    /\ sendIndex = 1
    /\ sendOutcomes = [o \in SendOutcomes |-> 0]
    /\ storageFaults = 0
    /\ pc = "start"
    /\ unitTrace = <<>>

\* execute up to the loops: readConfig returns
ReadConfig ==
    /\ pc = "start"
    /\ units' = AllCombinations(readConfig(configSheet))
    /\ pc' = IF units' = <<>> THEN "notify" ELSE "units"
    /\ UNCHANGED <<notificationService, configSheet, cveData, historical, logs,
                   unitIndex, monitoringRun, errors, notificationEvents,
                   sendIndex, sendOutcomes, storageFaults, unitTrace>>
    /\ UNCHANGED <<healthVars, queryVars, resolveVars, pageVars, sendVars, compareVars>>

\* a plausible slip: the log entry is written at the end of the try block,
\* which the outer catch skips
ReadConfigThrows_NoLogEntry ==
    /\ pc = "start"
    /\ monitoringRun' = [monitoringRun EXCEPT !.status = "failed"]
    /\ errors' = Append(errors, [imageId |-> <<>>, errorType |-> "ORCHESTRATOR_ERROR",
                                 errorMessage |-> "readConfig"])
    /\ logs' = logs
    /\ pc' = "done"
    /\ UNCHANGED <<notificationService, configSheet, cveData, historical,
                   units, unitIndex, notificationEvents, sendIndex,
                   sendOutcomes, storageFaults, unitTrace>>
    /\ UNCHANGED <<healthVars, queryVars, resolveVars, pageVars, sendVars, compareVars>>

\* readConfig throws: the outer catch, then the log entry
ReadConfigThrows ==
    /\ pc = "start"
    /\ monitoringRun' = [monitoringRun EXCEPT !.status = "failed"]
    /\ errors' = Append(errors, [imageId |-> <<>>, errorType |-> "ORCHESTRATOR_ERROR",
                                 errorMessage |-> "readConfig"])
    /\ logs' = appendLogEntry(logs, LogEntry(monitoringRun', errors'))
    /\ pc' = "done"
    /\ UNCHANGED <<notificationService, configSheet, cveData, historical,
                   units, unitIndex, notificationEvents, sendIndex,
                   sendOutcomes, storageFaults, unitTrace>>
    /\ UNCHANGED <<healthVars, queryVars, resolveVars, pageVars, sendVars, compareVars>>

UnitKey(unit) == <<unit.imageName, unit.architecture, unit.stream>>

\* a plausible slip: the catch branch forgets to count the failed unit
CountUnit_FailureUncounted(run, success, cveCount) ==
    IF success
    THEN [run EXCEPT !.imagesProcessed = @ + 1,
                     !.imagesSuccessful = @ + 1,
                     !.totalCvesDiscovered = @ + cveCount]
    ELSE [run EXCEPT !.imagesProcessed = @ + 1]

\* the counters of monitoringRun after one unit
CountUnit(run, success, cveCount) ==
    IF success
    THEN [run EXCEPT !.imagesProcessed = @ + 1,
                     !.imagesSuccessful = @ + 1,
                     !.totalCvesDiscovered = @ + cveCount]
    ELSE [run EXCEPT !.imagesProcessed = @ + 1,
                     !.imagesFailed = @ + 1]

\* the body of the inner for loop around processImage
LoopBody(success, cveCount, errorMessage) ==
    /\ monitoringRun' = CountUnit(monitoringRun, success, cveCount)
    /\ errors' =
         IF success THEN errors
         ELSE Append(errors, [imageId |-> UnitKey(units[unitIndex]),
                              errorType |-> "PROCESSING_ERROR",
                              errorMessage |-> errorMessage])
    /\ unitIndex' = unitIndex + 1
    /\ pc' = AfterUnit(unitIndex, Len(units), success)
    /\ UNCHANGED <<notificationService, configSheet, logs, units, sendIndex,
                   sendOutcomes>>
    /\ UNCHANGED <<healthVars, queryVars, resolveVars, pageVars, sendVars, compareVars>>

\* the catalog calls of processImage, each of which can throw
CatalogSteps ==
    {"findRepository", "findLatestImageInStream", "fetchImageVulnerabilities"}

\* what a unit returned, with what it was given, what it passed to a
\* completed writeCVEData (<<>> when no write completed, <<records>>
\* otherwise) and what it found in the sheets and in the queue
TraceEntry(unit, path, fault, written, success, detected, previousStatus, currentStatus, statusChanged) ==
    [unit |-> unit, path |-> path, fault |-> fault, written |-> written,
     success |-> success,
     detected |-> detected, historicalBefore |-> Len(historical),
     historicalSheet |-> historical,
     cveBefore |-> cveData, eventsBefore |-> Len(notificationEvents),
     previousStatus |-> previousStatus, currentStatus |-> currentStatus,
     statusChanged |-> statusChanged,
     queriedId |-> <<>>, held |-> <<>>]

\* the trace with one more unit; the sheets as found are kept for the unit
\* that ran last
Recorded(trace, entry) ==
    Append([i \in 1..Len(trace) |->
               [trace[i] EXCEPT !.cveBefore = <<>>, !.historicalSheet = <<>>]],
           entry)

\* a plausible slip: the placeholder row is written for every lookup that
\* fails
UnitCatalogFails_WritesPlaceholder(step) ==
    /\ pc = "units"
    /\ step \in CatalogSteps
    /\ LoopBody(FALSE, 0, "catalog call failed")
    /\ unitTrace' = Recorded(unitTrace,
            TraceEntry(units[unitIndex], "catalogFails", "none", <<>>, FALSE, FALSE,
                       UNKNOWN, UNKNOWN, FALSE))
    /\ cveData' = writeCVEData(cveData, units[unitIndex].imageName,
                       units[unitIndex].architecture, units[unitIndex].stream,
                       "N/A", <<NotFoundRecord>>, PlaceholderHealth.score,
                       PlaceholderHealth.status)
    /\ UNCHANGED <<historical, notificationEvents, storageFaults>>

\* processImage: a catalog call throws (repository lookup, build resolution
\* or vulnerability fetch); nothing was written
UnitCatalogFails(step) ==
    /\ pc = "units"
    /\ step \in CatalogSteps
    /\ LoopBody(FALSE, 0, "catalog call failed")
    /\ unitTrace' = Recorded(unitTrace,
            TraceEntry(units[unitIndex], "catalogFails", "none", <<>>, FALSE, FALSE,
                       UNKNOWN, UNKNOWN, FALSE))
    /\ UNCHANGED <<cveData, historical, notificationEvents, storageFaults>>

\* processImage: findLatestImageInStream returns null; the placeholder row
\* is written and the unit throws
UnitBuildNotFound(fault) ==
    /\ pc = "units"
    /\ fault = "none" \/ storageFaults < MaxStorageFaults
    /\ LET unit == units[unitIndex] IN
       /\ cveData' =
            IF fault = "none"
            THEN writeCVEData(cveData, unit.imageName, unit.architecture,
                              unit.stream, "N/A", <<NotFoundRecord>>,
                              PlaceholderHealth.score,
                              PlaceholderHealth.status)
            ELSE IF fault = "writeAfterDelete"
            THEN deleteRowsForImageCombination(cveData, unit.imageName,
                              unit.architecture, unit.stream)
            ELSE cveData
       /\ unitTrace' = Recorded(unitTrace,
              TraceEntry(unit, "notFound", fault,
                         IF fault = "none" THEN <<<<NotFoundRecord>>>> ELSE <<>>,
                         FALSE, FALSE,
                         UNKNOWN, UNKNOWN, FALSE))
    /\ storageFaults' = storageFaults + (IF fault = "none" THEN 0 ELSE 1)
    /\ LoopBody(FALSE, 0, IF fault = "none" THEN "No images found" ELSE fault)
    /\ UNCHANGED <<historical, notificationEvents>>

\* processImage: the build is resolved and its records fetched; steps 4 to 8,
\* any spreadsheet call of which can throw
UnitScored(records, fault) ==
    LET unit == units[unitIndex]
        build == LatestImageOf(unit)
        unitRecords == ImageVulnerabilities(QueriedId(build), unit, records)
    IN
    /\ pc = "units"
    /\ fault = "none" \/ storageFaults < MaxStorageFaults
    \* appendRows is called only when there are rows to append
    /\ fault = "writeAfterDelete" => unitRecords # <<>>
    /\ LET health == calculateHealthIndex(unitRecords, Undefined)
           previousHealth == getPreviousHealthStatus(historical,
                                 unit.imageName, unit.architecture, unit.stream)
           previousStatus == PreviousStatusOf(previousHealth)
           previousScore == PreviousScoreOf(previousHealth)
           statusChanged == StatusChanged(previousStatus, health.status)
           detected == fault # "readPrevious"
           written == IF fault \in {"none", "appendHistorical"}
                      THEN <<unitRecords>> ELSE <<>>
       IN
       /\ notificationEvents' =
            IF detected /\ ShouldQueue(statusChanged, notificationService)
            THEN Append(notificationEvents,
                        NotificationEventFor(unitIndex, unit, unitRecords, health,
                                             previousStatus, previousScore))
            ELSE notificationEvents
       /\ cveData' =
            IF fault \in {"none", "appendHistorical"}
            THEN writeCVEData(cveData, unit.imageName, unit.architecture,
                              unit.stream, build.version, unitRecords,
                              health.score, health.status)
            ELSE IF fault = "writeAfterDelete"
            THEN deleteRowsForImageCombination(cveData, unit.imageName,
                              unit.architecture, unit.stream)
            ELSE cveData
       /\ historical' =
            IF fault = "none"
            THEN appendHistoricalSnapshot(historical,
                     HistoricalRow(unit, build.version, unitRecords, health,
                         StatusChangeDescription(statusChanged, previousStatus,
                                                 health.status)))
            ELSE historical
       /\ unitTrace' = Recorded(unitTrace,
              [(IF detected
                THEN TraceEntry(unit, "scored", fault, written, fault = "none", TRUE,
                                previousStatus, health.status, statusChanged)
                ELSE TraceEntry(unit, "scored", fault, written, FALSE, FALSE,
                                UNKNOWN, UNKNOWN, FALSE))
               EXCEPT !.queriedId = QueriedId(build), !.held = <<records>>])
    /\ storageFaults' = storageFaults + (IF fault = "none" THEN 0 ELSE 1)
    /\ LoopBody(fault = "none", Len(unitRecords), fault)

\* a plausible slip: an event is sent as soon as it is queued
SendingAllowed_InsideLoop(position) == position \in {"units", "notify"}

\* the loop over this.notificationEvents stands after the loops over the
\* combinations
SendingAllowed(position) == position = "notify"

\* a plausible slip: every result other than Success counts as failed
CountSend_ElseFailed(run, outcome) ==
    IF outcome = "Success"
    THEN [run EXCEPT !.notificationsSent = @ + 1]
    ELSE [run EXCEPT !.notificationsFailed = @ + 1]

\* the counters of monitoringRun after one send: the result's deliveryStatus,
\* or the catch when send threw
CountSend(run, outcome) ==
    IF outcome = "Success"
    THEN [run EXCEPT !.notificationsSent = @ + 1]
    ELSE IF outcome \in {"Failed", "throws"}
    THEN [run EXCEPT !.notificationsFailed = @ + 1]
    ELSE run

\* one iteration of the loop over this.notificationEvents
SendNotification(outcome) ==
    /\ SendingAllowed(pc)
    /\ notificationService
    /\ sendIndex <= Len(notificationEvents)
    /\ monitoringRun' = CountSend(monitoringRun, outcome)
    /\ sendOutcomes' = [sendOutcomes EXCEPT ![outcome] = @ + 1]
    /\ sendIndex' = sendIndex + 1
    /\ UNCHANGED <<notificationService, configSheet, cveData, historical, logs,
                   units, unitIndex, errors, notificationEvents, storageFaults,
                   pc, unitTrace>>
    /\ UNCHANGED <<healthVars, queryVars, resolveVars, pageVars, sendVars, compareVars>>

\* a plausible slip: the test for success comes first, so that a run
\* without units is failed
OverallStatus_SuccessFirst(run) ==
    IF run.imagesSuccessful = 0 THEN "failed"
    ELSE IF run.imagesFailed = 0 THEN "completed"
    ELSE "partial"

\* a plausible slip: any failure makes the run partial
OverallStatus_PartialOnAnyFailure(run) ==
    IF run.imagesFailed = 0 THEN "completed" ELSE "partial"

\* "Determine overall status"
OverallStatus(run) ==
    IF run.imagesFailed = 0 THEN "completed"
    ELSE IF run.imagesSuccessful > 0 THEN "partial"
    ELSE "failed"

\* the overall status, and the log entry
FinishRun ==
    /\ pc = "notify"
    /\ ~notificationService \/ sendIndex > Len(notificationEvents)
    /\ monitoringRun' =
         [monitoringRun EXCEPT !.status = OverallStatus(monitoringRun)]
    /\ logs' = appendLogEntry(logs, LogEntry(monitoringRun', errors))
    /\ pc' = "done"
    /\ UNCHANGED <<notificationService, configSheet, cveData, historical,
                   units, unitIndex, errors, notificationEvents, sendIndex,
                   sendOutcomes, storageFaults, unitTrace>>
    /\ UNCHANGED <<healthVars, queryVars, resolveVars, pageVars, sendVars, compareVars>>

NextRun ==
    \/ ReadConfig
    \/ ReadConfigThrows
    \/ \E step \in CatalogSteps : UnitCatalogFails(step)
    \/ \E fault \in {"none", "writeBeforeDelete", "writeAfterDelete"} :
          UnitBuildNotFound(fault)
    \/ \E records \in UnitRecordLists : UnitScored(records, "none")
    \/ \E records \in FaultedRecordLists,
          fault \in {"readPrevious", "writeBeforeDelete",
                     "writeAfterDelete", "appendHistorical"} :
          UnitScored(records, fault)
    \/ \E outcome \in SendOutcomes : SendNotification(outcome)
    \/ FinishRun

SpecRun == InitRun /\ [][NextRun]_vars

(***************************************************************************)
(* NotificationService.ts: one call of send, on an event as processImage   *)
(* queues it, by a service built from any configuration.                   *)
(***************************************************************************)
ServiceConfigs ==
    [enableEmail              : BOOLEAN,
     emailRecipients          : {<<>>, <<"ops@example.com">>},
     enableSlack              : BOOLEAN,
     slackWebhookUrl          : {<<>>, <<"https://hooks.example.com/T000">>},
     severityThreshold        : {<<>>} \cup {<<s>> : s \in Severity},
     notifyOnlyOnStatusChange : {<<>>, <<TRUE>>, <<FALSE>>}]

\* the constructor: a notifier exists when its channel is enabled and has a
\* destination
HasEmailNotifier(config) ==
    config.enableEmail /\ config.emailRecipients # <<>>

HasSlackNotifier(config) ==
    config.enableSlack /\ config.slackWebhookUrl # <<>>

\* a plausible slip: the Important threshold counts any CVE, as the lower
\* thresholds do
meetsSeverityThreshold_ImportantByAnyCve(config, event) ==
    LET threshold == config.severityThreshold[1] IN
    CASE threshold = Critical -> event.criticalCveCount > 0
      [] threshold \in {Important, Moderate, Low, NoSeverity} ->
            Len(event.affectedCves) > 0
      [] OTHER -> TRUE

\* the switch on this.config.severityThreshold
meetsSeverityThreshold(config, event) ==
    LET threshold == config.severityThreshold[1] IN
    CASE threshold = Critical -> event.criticalCveCount > 0
      [] threshold = Important ->
            event.criticalCveCount > 0 \/ event.importantCveCount > 0
      [] threshold = Moderate -> Len(event.affectedCves) > 0
      [] threshold \in {Low, NoSeverity} -> Len(event.affectedCves) > 0
      [] OTHER -> TRUE

shouldNotify(config, event) ==
    IF /\ config.notifyOnlyOnStatusChange # <<FALSE>>
       /\ event.previousStatus = event.currentStatus
    THEN FALSE
    ELSE IF /\ config.severityThreshold # <<>>
            /\ ~meetsSeverityThreshold(config, event)
    THEN FALSE
    ELSE TRUE

\* what a notifier's send can end in
NotifierResults == {"true", "false", "throws"}

\* channelsAttempted.push(channel) and results.push(success), or
\* results.push(false) in the catch
ChannelAttempt(channel, result) ==
    [channel |-> channel, success |-> result = "true"]

\* a plausible slip: Slack is a fallback, tried only when email succeeded
\* or is not configured
ChannelAttempts_StopAfterFailure(config, emailResult, slackResult) ==
    (IF HasEmailNotifier(config)
     THEN <<ChannelAttempt("email", emailResult)>> ELSE <<>>)
    \o (IF HasSlackNotifier(config)
            /\ (~HasEmailNotifier(config) \/ emailResult = "true")
        THEN <<ChannelAttempt("slack", slackResult)>> ELSE <<>>)

\* the two blocks "Send via email" and "Send via Slack"
ChannelAttempts(config, emailResult, slackResult) ==
    (IF HasEmailNotifier(config)
     THEN <<ChannelAttempt("email", emailResult)>> ELSE <<>>)
    \o (IF HasSlackNotifier(config)
        THEN <<ChannelAttempt("slack", slackResult)>> ELSE <<>>)

\* "Update event with delivery results"
DeliveryStatusOf(results) ==
    IF results = <<>> THEN "Skipped"
    ELSE IF \A i \in 1..Len(results) : results[i].success THEN "Success"
    ELSE IF \E i \in 1..Len(results) : results[i].success THEN "Success"
    ELSE "Failed"

send(config, event, emailResult, slackResult) ==
    IF ~shouldNotify(config, event)
    THEN [event   |-> [event EXCEPT !.deliveryStatus = "Skipped"],
          results |-> <<>>]
    ELSE LET results == ChannelAttempts(config, emailResult, slackResult) IN
         [event   |-> [event EXCEPT
                          !.channels = [i \in 1..Len(results) |->
                                           results[i].channel],
                          !.deliveryAttempts = @ + 1,
                          !.deliveryStatus = DeliveryStatusOf(results)],
          results |-> results]

\* the records of the builds whose events are sent
SendRecordLists ==
    UnitRecordLists \cup
    {<<[cveId |-> "CVE-2024-0004", severity |-> Low]>>,
     <<[cveId |-> "CVE-2024-0005", severity |-> NoSeverity]>>,
     <<[cveId |-> "CVE-2024-0006", severity |-> Moderate]>>}

SendUnit == AllCombinations(readConfig(<<UbiRow>>))[1]

\* the Historical sheet a unit can find: empty, or left by an earlier run
PriorSheets ==
    {<<>>} \cup {StoreAfterRun(EmptyStore, <<SendUnit>>, records).historical :
                    records \in SendRecordLists}

\* steps 4 to 6 of processImage: the event queued for the unit, if any
QueuedEvent(sheet, records) ==
    LET health == calculateHealthIndex(records, Undefined)
        previousHealth == getPreviousHealthStatus(sheet, SendUnit.imageName,
                              SendUnit.architecture, SendUnit.stream)
        previousStatus == PreviousStatusOf(previousHealth)
        previousScore == PreviousScoreOf(previousHealth)
    IN  IF ShouldQueue(StatusChanged(previousStatus, health.status), TRUE)
        THEN <<NotificationEventFor(1, SendUnit, records, health,
                                    previousStatus, previousScore)>>
        ELSE <<>>

QueuedEvents ==
    {QueuedEvent(sheet, records) :
        sheet \in PriorSheets, records \in SendRecordLists} \ {<<>>}

InitSend ==
    /\ IdleHealth
    /\ IdleQuery
    /\ IdlePages
    /\ IdleResolve
    /\ IdleRun
    /\ IdleCompare
    /\ serviceConfig \in {<<config>> : config \in ServiceConfigs}
    /\ sendEvent \in QueuedEvents
    /\ channelResults = <<>>
    /\ sendState = "pending"

\* one call of send
Send(emailResult, slackResult) ==
    /\ sendState = "pending"
    /\ LET returned == send(serviceConfig[1], sendEvent[1],
                            emailResult, slackResult)
       IN  /\ sendEvent' = <<returned.event>>
           /\ channelResults' = returned.results
    /\ sendState' = "returned"
    /\ UNCHANGED <<serviceConfig, healthVars, queryVars, pageVars, runVars,
                   resolveVars, compareVars>>

NextSend ==
    \E emailResult \in NotifierResults, slackResult \in NotifierResults :
        Send(emailResult, slackResult)

SpecSend == InitSend /\ [][NextSend]_vars

(***************************************************************************)
(* Properties of executeQuery                                              *)
(***************************************************************************)
IsTransportFailure(r) == r.kind = "transport"
Is5xx(r) == r.kind = "http" /\ r.status >= 500
Is4xx(r) == r.kind = "http" /\ r.status >= 400 /\ r.status < 500
IsQueryLevelError(r) == r.kind = "errors"
IsUnexpectedResponse(r) ==
    \/ r.kind = "http" /\ r.status < 400
    \/ r.kind = "unparsable"

\* C7: at most 3 fetch attempts per call; an attempt that ends in a transport
\* failure or a 5xx response, whatever the body, does not end the call while
\* fewer than 3 attempts have been made; after 503, 503, success the call
\* returns the data of the third attempt.
C7_RetryOnTransportOr5xx ==
    /\ Len(responses) <= 3
    /\ \A i \in 1..Len(responses) :
         (i < 3 /\ i = Len(responses)
            /\ (IsTransportFailure(responses[i]) \/ Is5xx(responses[i])))
         => queryOutcome = "running"
    /\ (Len(responses) = 3
          /\ responses[1].status = 503 /\ responses[2].status = 503
          /\ responses[3].kind = "data")
       => (queryOutcome = "returned" /\ queryResult.data = responses[3].data)

C9_RetryOnlyTransportOr5xx ==
    \A i \in 1..Len(responses) :
        i < Len(responses)
        => (IsTransportFailure(responses[i]) \/ Is5xx(responses[i]))

\* C9 as amended: an attempt is followed by a further attempt only if it
\* failed otherwise than with a 4xx response or a query-level error; those
\* two end the call, while an unexpected response (a non-200 status below
\* 400, a 200 body that does not parse) can be followed by a retry.
C9_RetryOnlyIfNot4xxNorQueryError ==
    \A i \in 1..Len(responses) :
        i < Len(responses)
        => /\ responses[i].kind # "data"
           /\ ~Is4xx(responses[i])
           /\ ~IsQueryLevelError(responses[i])

\* a 204 answer followed by a second fetch
C9_Witness ==
    /\ Len(responses) = 2
    /\ responses[1].kind = "http" /\ responses[1].status = 204
    /\ sleeps # <<>>

\* the n-th attempt failed with an error the catch block does not rethrow
FailedRetryable(n) ==
    /\ AttemptError(responses[n]) # NoError
    /\ ~IsNotRetried(AttemptError(responses[n]))

C10_PaginationComplete ==
    pageOutcome = "returned" =>
        /\ Len(allVulnerabilities) = catalogTotal
        /\ \A i \in 1..catalogTotal : allVulnerabilities[i] = i

\* three pages of 3, 3 and 1 records for a total of 7
C10_Witness ==
    /\ pageOutcome = "returned"
    /\ catalogTotal = 7 /\ catalogPageSize = 3
    /\ pagesRequested = <<0, 1, 2>>
    /\ Len(allVulnerabilities) = 7

\* C11: when the request for a page fails, findImageVulnerabilities hands
\* nothing to its caller: the caller holds a list only after the method has
\* returned, that list is the whole listing and never the pages fetched
\* before a failure, and nothing is scored after a failure.
C11_NoPartialPages ==
    /\ pageOutcome = "thrown" =>
          /\ fetched = <<>>
          /\ healthIndex = NoHealthIndex
          /\ cveRecords = <<>>
    /\ fetched # <<>> =>
          /\ pageOutcome = "returned"
          /\ Len(fetched[1]) = catalogTotal
          /\ \A i \in 1..catalogTotal : fetched[1][i].cveId = i
    /\ healthIndex # NoHealthIndex =>
          /\ fetched # <<>>
          /\ healthIndex.criticalCves + healthIndex.importantCves
               + healthIndex.moderateCves + healthIndex.lowCves
               + CountSeverity(fetched[1], NoSeverity) = catalogTotal

\* the third page fails after two pages of records were accumulated
C11_Witness ==
    /\ pageOutcome = "thrown"
    /\ pagesRequested = <<0, 1, 2>>
    /\ Len(allVulnerabilities) = 4
    /\ fetched = <<>>

\* n = max(1, ceil(T/P)): the least number of pages, at least one, that
\* hold T records
ExpectedPages(total, pageSize) ==
    CHOOSE n \in 1..(total + 1) :
        /\ n * pageSize >= total
        /\ n = 1 \/ (n - 1) * pageSize < total

\* C39: the pages requested are 0, 1, 2, ... in this order, none twice; the
\* loop is still running only while fewer than n = max(1, ceil(T/P)) pages
\* were requested, and it has returned only after exactly n requests.
C39_PagesInOrderThenStop ==
    LET n == ExpectedPages(catalogTotal, catalogPageSize) IN
    /\ \A i \in 1..Len(pagesRequested) : pagesRequested[i] = i - 1
    /\ Len(pagesRequested) <= n
    /\ pageOutcome = "running" => Len(pagesRequested) < n
    /\ pageOutcome = "returned" => Len(pagesRequested) = n

\* a total that is a multiple of the page size: two full pages, no third
C39_Witness ==
    /\ pageOutcome = "returned"
    /\ catalogTotal = 6 /\ catalogPageSize = 3
    /\ pagesRequested = <<0, 1>>

(***************************************************************************)
(* Properties of the resolution of the latest build                        *)
(***************************************************************************)
\* the tags the listing carries, 'latest' aside
ListedTags ==
    {t \in Tags \ {Tag_latest} :
        \E i \in 1..Len(catalogImages) :
            \E r \in 1..Len(catalogImages[i].repositories) :
                \E k \in 1..Len(catalogImages[i].repositories[r]) :
                    catalogImages[i].repositories[r][k] = t}

\* the images of the listing that carry the tag
CarriersOf(t) ==
    {i \in 1..Len(catalogImages) :
        \E r \in 1..Len(catalogImages[i].repositories) :
            \E k \in 1..Len(catalogImages[i].repositories[r]) :
                catalogImages[i].repositories[r][k] = t}

\* the order of the tags: the segments padded with zeros to n places, then
\* the build number, a tag without one ranking below every build number
OrderKey(t, n) ==
    LET p == parseVersion(t)
    IN  [i \in 1..(n + 1) |->
            IF i <= Len(p.segments) THEN p.segments[i]
            ELSE IF i <= n THEN 0
            ELSE IF p.build = <<>> THEN -1 ELSE p.build[1]]
IsNewer(a, b) ==
    LET n == Max(Len(parseVersion(a).segments), Len(parseVersion(b).segments))
        ka == OrderKey(a, n)
        kb == OrderKey(b, n)
    IN  \E k \in 1..(n + 1) :
            ka[k] > kb[k] /\ \A j \in 1..(k - 1) : ka[j] = kb[j]

Resolved(method) ==
    /\ resolveMethod = method
    /\ resolveOutcome = "returned"
    /\ latestImage.found

\* C12: findLatestImage returns a build of the listing with one of its
\* tags, and no tag of the listing is newer than that tag in the order
\* (segments left to right, zero-padded, then build number over no build
\* number, then the larger build number); over the tags 4.9.0-1, 4.9.0-2
\* and 4.9.0 the result is tagged 4.9.0-2.
C12_MaximalTag ==
    Resolved("findLatestImage") =>
        /\ latestImage.version \in ListedTags
        /\ latestImage.imageId \in CarriersOf(latestImage.version)
        /\ \A t \in ListedTags : ~IsNewer(t, latestImage.version)
        /\ ListedTags = {Tag_4_9_0_1, Tag_4_9_0_2, Tag_4_9_0} =>
              latestImage.version = Tag_4_9_0_2

\* two builds, the first tagged 4.9.0-1, 4.9.0-2 and 4.9.0
C12_Witness ==
    /\ Resolved("findLatestImage")
    /\ ListedTags = {Tag_4_9_0_1, Tag_4_9_0_2, Tag_4_9_0}
    /\ Len(catalogImages) = 2
    /\ latestImage.version = Tag_4_9_0_2

Sign(n) == IF n > 0 THEN 1 ELSE IF n < 0 THEN -1 ELSE 0

\* C40: compareVersions(a, b) and compareVersions(b, a) have opposite signs
\* (zero together); a above b and b above c give a above c; the tag
\* findLatestImage returns for a listing of a, b and c compares greater than
\* or equal to each of them that takes part in the sort (a tag other than
\* 'latest'), and in whatever order the catalog lists the builds the tag
\* returned compares equal to it.
C40_ConsistentOrdering ==
    comparison # <<>> =>
        LET answers == comparison[1]
            first == answers.latest[[k \in 1..3 |-> k]]
        IN  /\ Sign(answers.ab) = -Sign(answers.ba)
            /\ answers.ab > 0 /\ answers.bc > 0 => answers.ac > 0
            /\ \A order \in ListingOrders :
                   LET chosen == answers.latest[order] IN
                   /\ chosen.found <=>
                         \E k \in 1..3 : comparedTags[k] # Tag_latest
                   /\ chosen.found =>
                         /\ \A k \in 1..3 :
                               comparedTags[k] # Tag_latest =>
                                  compareVersions(chosen.version,
                                                  comparedTags[k]) >= 0
                         /\ compareVersions(chosen.version, first.version) = 0

\* 4.90.1 over 4.9.0-1 over 4.9.0: a longer segment, then a tag with a
\* build number over the same version without one; 4.90.1 is listed last
\* and returned
C40_Witness ==
    /\ comparison # <<>>
    /\ comparedTags = <<Tag_4_9_0, Tag_4_9_0_1, Tag_4_90_1>>
    /\ comparison[1].ab = -1 /\ comparison[1].ba = 1
    /\ comparison[1].bc = -1 /\ comparison[1].ac = -1
    /\ \A order \in ListingOrders :
          comparison[1].latest[order].version = Tag_4_90_1

\* the version of the tag begins with the version of the stream
HasStreamPrefix(t, s) ==
    LET ts == parseVersion(t).segments
        ss == parseVersion(s).segments
    IN  Len(ts) >= Len(ss) /\ SubSeq(ts, 1, Len(ss)) = ss

\* C13: for a stream other than "latest" the tag of the build resolved by
\* findLatestImageInStream is a tag of the listing whose version begins
\* with the stream; over the tags 4.10.0 and 4.9.5 with stream 4.9 the
\* result is 4.9.5.
C13_StreamPrefixRespected ==
    (Resolved("findLatestImageInStream") /\ resolveStream # Stream_latest) =>
        /\ latestImage.version \in ListedTags
        /\ HasStreamPrefix(latestImage.version, resolveStream)
        /\ (ListedTags = {Tag_4_10_0, Tag_4_9_5} /\ resolveStream = Stream_4_9)
              => latestImage.version = Tag_4_9_5

\* 4.10.0 is listed first and is the numeric maximum
C13_Witness ==
    /\ Resolved("findLatestImageInStream")
    /\ resolveStream = Stream_4_9
    /\ Len(catalogImages) = 2
    /\ catalogImages[1].repositories = << <<Tag_4_10_0>> >>
    /\ catalogImages[2].repositories = << <<Tag_4_9_5>> >>
    /\ latestImage.version = Tag_4_9_5

\* two tags that no step of the comparison tells apart
SameVersion(a, b) == ~IsNewer(a, b) /\ ~IsNewer(b, a)

\* C14: among the builds whose tags equal the resolved tag under the full
\* comparison, the resolved build has the most recent creation date.
C14_TieBrokenByCreationDate ==
    (resolveOutcome = "returned" /\ latestImage.found) =>
        \A t \in ListedTags :
            SameVersion(t, latestImage.version) =>
                \A i \in CarriersOf(t) :
                    catalogImages[i].creation_date
                        <= catalogImages[latestImage.imageId].creation_date

\* no tag of the listing takes part in the comparison of the method called
NoTagSurvives ==
    \A t \in ListedTags :
        /\ resolveMethod = "findLatestImageInStream"
        /\ ~SurvivesFiltering(t, resolveStream)

\* C15: when no tag survives filtering, the empty listing included, and
\* the catalog request itself did not fail, resolution returns null and
\* throws nothing.
C15_NotFoundIsNull ==
    (resolveOutcome \notin {"pending", "threw request failed"}
        /\ NoTagSurvives) =>
        /\ resolveOutcome = "returned"
        /\ latestImage = Null

\* C16: a tag without a numeric segment is never the version resolved, and
\* a listing that carries one makes no resolution throw.
C16_MalformedExcluded ==
    /\ (resolveOutcome = "returned" /\ latestImage.found) =>
            ~IsMalformed(latestImage.version)
    /\ (\E t \in ListedTags : IsMalformed(t)) =>
            resolveOutcome # "threw No images found"

(***************************************************************************)
(* Properties of a run                                                     *)
(***************************************************************************)
\* the status of the last Historical row of the unit's combination among the
\* first n rows of the sheet, Unknown when there is none
RecordedStatus(unit, n) ==
    LET rows == {i \in 1..n :
                    /\ historical[i].imageName = unit.imageName
                    /\ historical[i].architecture = unit.architecture
                    /\ historical[i].stream = unit.stream}
    IN  IF rows = {} THEN UNKNOWN
        ELSE historical[CHOOSE i \in rows : \A j \in rows : j <= i].healthStatus

\* readConfig returned: the outer catch of execute logged nothing
ConfigWasRead ==
    \A k \in 1..Len(errors) : errors[k].errorType # "ORCHESTRATOR_ERROR"

EventsOfUnit(index) ==
    {e \in 1..Len(notificationEvents) : notificationEvents[e].unit = index}

\* C4: in every unit that reaches change detection, changed is true exactly
\* when the status last recorded for the unit's image/architecture/stream
\* (Unknown when none is recorded) differs from the status just computed.
C4_ChangedIffStatusDiffers ==
    \A i \in 1..Len(unitTrace) :
        unitTrace[i].detected =>
            /\ unitTrace[i].previousStatus =
                  RecordedStatus(unitTrace[i].unit,
                                 unitTrace[i].historicalBefore)
            /\ unitTrace[i].statusChanged =
                  (unitTrace[i].previousStatus # unitTrace[i].currentStatus)

\* a unit whose recorded status equals the computed one: changed is false
C4_Witness ==
    \E i \in 1..Len(unitTrace) :
        /\ unitTrace[i].detected
        /\ unitTrace[i].previousStatus = AT_RISK
        /\ unitTrace[i].currentStatus = AT_RISK
        /\ ~unitTrace[i].statusChanged

\* C5: an event is queued for a unit exactly when its transition has
\* changed = true, one event per such unit, and no queued event has equal
\* previous and current status.
C5_EventIffChanged ==
    /\ \A i \in 1..Len(unitTrace) :
         Cardinality(EventsOfUnit(i)) =
            (IF unitTrace[i].detected /\ unitTrace[i].statusChanged
             THEN 1 ELSE 0)
    /\ \A e \in 1..Len(notificationEvents) :
         notificationEvents[e].previousStatus
            # notificationEvents[e].currentStatus

\* C5 as amended: when the orchestrator has a notification service, an event
\* is queued for a unit exactly when its transition has changed = true, one
\* event per such unit; without a notification service no event is queued;
\* no queued event has equal previous and current status.
C5_EventIffChangedAndService ==
    /\ \A i \in 1..Len(unitTrace) :
         Cardinality(EventsOfUnit(i)) =
            (IF notificationService /\ unitTrace[i].detected
                /\ unitTrace[i].statusChanged
             THEN 1 ELSE 0)
    /\ \A e \in 1..Len(notificationEvents) :
         /\ notificationEvents[e].previousStatus
               # notificationEvents[e].currentStatus
         /\ notificationEvents[e].unit \in 1..Len(unitTrace)

\* two units went through change detection, one changed and one not, and
\* the only event queued is the one of the changed unit
C5_Witness ==
    /\ notificationService
    /\ Len(unitTrace) >= 2
    /\ unitTrace[1].detected /\ unitTrace[1].statusChanged
    /\ unitTrace[2].detected /\ ~unitTrace[2].statusChanged
    /\ Len(notificationEvents) = 1
    /\ notificationEvents[1].unit = 1

\* C6: a failure inside a unit never stops the loop: when the run is over
\* (the configuration having been read) every unit was processed exactly
\* once, in order, processed = N = succeeded + failed, and every unit that
\* succeeded has its snapshot in the Historical sheet.
C6_EveryUnitProcessed ==
    (pc \in {"notify", "done"} /\ ConfigWasRead) =>
        /\ monitoringRun.imagesProcessed = Len(units)
        /\ Len(unitTrace) = Len(units)
        /\ \A i \in 1..Len(units) : unitTrace[i].unit = units[i]
        /\ monitoringRun.imagesSuccessful =
              Cardinality({i \in 1..Len(units) : unitTrace[i].success})
        /\ monitoringRun.imagesFailed =
              Cardinality({i \in 1..Len(units) : ~unitTrace[i].success})
        /\ \A i \in 1..Len(units) :
              unitTrace[i].success =>
                 /\ unitTrace[i].historicalBefore < Len(historical)
                 /\ historical[unitTrace[i].historicalBefore + 1].healthStatus
                       = unitTrace[i].currentStatus
                 /\ historical[unitTrace[i].historicalBefore + 1].stream
                       = units[i].stream
                 /\ historical[unitTrace[i].historicalBefore + 1].architecture
                       = units[i].architecture

\* four units of which the third failed: processed 4, succeeded 3, failed 1
C6_Witness ==
    /\ pc = "done"
    /\ Len(units) = 4
    /\ unitTrace[1].success /\ unitTrace[2].success
    /\ ~unitTrace[3].success /\ unitTrace[4].success
    /\ monitoringRun.imagesProcessed = 4
    /\ monitoringRun.imagesSuccessful = 3
    /\ monitoringRun.imagesFailed = 1
    /\ monitoringRun.status = "partial"

\* the unit of trace entry i found no Historical row of its combination
FirstObservation(i) ==
    \A r \in 1..unitTrace[i].historicalBefore :
        \/ historical[r].imageName # unitTrace[i].unit.imageName
        \/ historical[r].architecture # unitTrace[i].unit.architecture
        \/ historical[r].stream # unitTrace[i].unit.stream

Degraded(status) == status \in {AT_RISK, CRITICAL}

\* C17: a unit that finds no snapshot of its combination takes Unknown as
\* the previous status and has changed = (Unknown # current status); when
\* the status is At Risk or Critical changed is true and one event is
\* queued.
C17_FirstObservationFires ==
    \A i \in 1..Len(unitTrace) :
        (unitTrace[i].detected /\ FirstObservation(i)) =>
            /\ unitTrace[i].previousStatus = UNKNOWN
            /\ unitTrace[i].statusChanged
                  = (UNKNOWN # unitTrace[i].currentStatus)
            /\ Degraded(unitTrace[i].currentStatus) =>
                  /\ unitTrace[i].statusChanged
                  /\ Cardinality(EventsOfUnit(i)) = 1

\* C17 as amended: the event is queued when the orchestrator has a
\* notification service, and no event is queued when it has none.
C17_FirstObservationFiresWithService ==
    \A i \in 1..Len(unitTrace) :
        (unitTrace[i].detected /\ FirstObservation(i)) =>
            /\ unitTrace[i].previousStatus = UNKNOWN
            /\ unitTrace[i].statusChanged
                  = (UNKNOWN # unitTrace[i].currentStatus)
            /\ Degraded(unitTrace[i].currentStatus) =>
                  /\ unitTrace[i].statusChanged
                  /\ Cardinality(EventsOfUnit(i))
                        = (IF notificationService THEN 1 ELSE 0)

\* the first unit of a run on an empty Historical sheet is Critical and
\* its event is queued
C17_Witness ==
    /\ notificationService
    /\ Len(unitTrace) >= 1
    /\ unitTrace[1].detected
    /\ unitTrace[1].historicalBefore = 0
    /\ unitTrace[1].currentStatus = CRITICAL
    /\ unitTrace[1].statusChanged
    /\ EventsOfUnit(1) = {1}

\* every unit so far that computed a status computed the status recorded
\* for its combination when it ran
QuietRun ==
    \A i \in 1..Len(unitTrace) :
        unitTrace[i].detected =>
            unitTrace[i].currentStatus
                = RecordedStatus(unitTrace[i].unit,
                                 unitTrace[i].historicalBefore)

SendsSoFar ==
    sendOutcomes["Success"] + sendOutcomes["Failed"]
        + sendOutcomes["Skipped"] + sendOutcomes["throws"]

\* C18: as long as every unit computed the status already recorded for its
\* combination, no event is queued and send is never called, up to the end
\* of the run.
C18_QuietRunSendsNothing ==
    QuietRun =>
        /\ notificationEvents = <<>>
        /\ SendsSoFar = 0
        /\ sendIndex = 1
        /\ monitoringRun.notificationsSent = 0
        /\ monitoringRun.notificationsFailed = 0

\* a finished run with a notification service whose two units both computed
\* the recorded status
C18_Witness ==
    /\ pc = "done"
    /\ notificationService
    /\ Len(unitTrace) = 2
    /\ unitTrace[1].detected /\ unitTrace[1].success
    /\ unitTrace[2].detected /\ unitTrace[2].success
    /\ unitTrace[1].currentStatus = CRITICAL
    /\ QuietRun
    /\ notificationEvents = <<>>
    /\ SendsSoFar = 0

\* a unit of the run has just finished
UnitFinishes == Len(unitTrace') = Len(unitTrace) + 1

\* C19: the previous status a unit reads is the status of the last
\* Historical row of its combination as the sheet stood before the unit
\* (Unknown standing for none), so never its own snapshot; a unit that
\* succeeds appends exactly its own snapshot after that read, a unit that
\* fails leaves the Historical sheet, and with it the value the next unit
\* reads, as it was; nothing else writes to the sheet.
C19_PreviousIsLastEarlierSnapshot ==
    [][IF UnitFinishes
       THEN LET entry == unitTrace'[Len(unitTrace')]
            IN  /\ entry.detected =>
                      entry.previousStatus
                          = RecordedStatus(entry.unit, Len(historical))
                /\ entry.success =>
                      /\ Len(historical') = Len(historical) + 1
                      /\ SubSeq(historical', 1, Len(historical)) = historical
                      /\ historical'[Len(historical')].imageName
                            = entry.unit.imageName
                      /\ historical'[Len(historical')].architecture
                            = entry.unit.architecture
                      /\ historical'[Len(historical')].stream
                            = entry.unit.stream
                      /\ historical'[Len(historical')].healthStatus
                            = entry.currentStatus
                /\ ~entry.success => historical' = historical
       ELSE historical' = historical]_vars

\* the same combination twice in one run, on top of an earlier run: the
\* second unit read the status the first one had just recorded, which
\* differs from the one the earlier run left
C19_Witness ==
    /\ Len(unitTrace) = 2
    /\ unitTrace[1].unit = unitTrace[2].unit
    /\ unitTrace[1].detected /\ unitTrace[1].success
    /\ unitTrace[2].detected
    /\ unitTrace[1].previousStatus = AT_RISK
    /\ unitTrace[1].currentStatus = CRITICAL
    /\ unitTrace[2].previousStatus = CRITICAL
    /\ unitTrace[2].historicalBefore = 3

\* C20: once send has been called, every unit of the run has finished: the
\* loop over the combinations is over and stays over.
C20_SendsAfterAllUnits ==
    (SendsSoFar > 0 \/ sendIndex > 1) =>
        /\ pc \in {"notify", "done"}
        /\ unitIndex = Len(units) + 1
        /\ Len(unitTrace) = Len(units)
        /\ monitoringRun.imagesProcessed = Len(units)

\* the first of two events has been sent after a run of two units
C20_Witness ==
    /\ pc = "notify"
    /\ Len(units) = 2
    /\ Len(unitTrace) = 2
    /\ Len(notificationEvents) = 2
    /\ sendIndex = 2
    /\ SendsSoFar = 1

\* the units that ended in failure, in the order of the loops
FailedSeq == LET Failed(entry) == ~entry.success IN SelectSeq(unitTrace, Failed)

SucceededSeq == LET Ok(entry) == entry.success IN SelectSeq(unitTrace, Ok)

\* the status the outcomes of the units alone call for
StatusOfUnits ==
    IF FailedSeq = <<>> THEN "completed"
    ELSE IF SucceededSeq # <<>> THEN "partial"
    ELSE "failed"

C22_CountsAddUp ==
    /\ monitoringRun.imagesProcessed =
           monitoringRun.imagesSuccessful + monitoringRun.imagesFailed
    /\ monitoringRun.imagesProcessed = Len(unitTrace)
    /\ monitoringRun.imagesSuccessful = Len(SucceededSeq)
    /\ monitoringRun.imagesFailed = Len(FailedSeq)
    /\ ConfigWasRead =>
          /\ Len(errors) = Len(FailedSeq)
          /\ \A k \in 1..Len(errors) :
                /\ errors[k].errorType = "PROCESSING_ERROR"
                /\ errors[k].imageId = UnitKey(FailedSeq[k].unit)

\* four units have run, the second and the fourth failed
C22_Witness ==
    /\ Len(unitTrace) = 4
    /\ unitTrace[1].success /\ ~unitTrace[2].success
    /\ unitTrace[3].success /\ ~unitTrace[4].success
    /\ monitoringRun.imagesProcessed = 4
    /\ monitoringRun.imagesFailed = 2
    /\ Len(errors) = 2

C24_ConfigFailureEndsEmpty ==
    /\ ~ConfigWasRead =>
          /\ pc = "done"
          /\ units = <<>>
          /\ unitTrace = <<>>
          /\ notificationEvents = <<>>
          /\ SendsSoFar = 0
          /\ Len(errors) = 1
          /\ monitoringRun.status = "failed"
          /\ monitoringRun.imagesProcessed = 0
    /\ (pc = "done" /\ monitoringRun.status = "failed"
            /\ monitoringRun.imagesProcessed = 0) => ~ConfigWasRead

\* readConfig threw on a sheet that lists units, with earlier results stored
C24_Witness ==
    /\ pc = "done"
    /\ ~ConfigWasRead
    /\ AllCombinations(readConfig(configSheet)) # <<>>
    /\ historical # <<>>
    /\ monitoringRun.status = "failed"

LastUnit == unitTrace[Len(unitTrace)]

RowsOf(sheet, unit) ==
    LET Same(row) == SameCombination(row, unit.imageName, unit.architecture,
                                     unit.stream)
    IN  SelectSeq(sheet, Same)

OtherRows(sheet, unit) ==
    LET Other(row) == ~SameCombination(row, unit.imageName, unit.architecture,
                                       unit.stream)
    IN  SelectSeq(sheet, Other)

\* the unit failed in a call that stands before its writeCVEData, or in the
\* first spreadsheet call of that write
FailedBeforeWrite(entry) ==
    /\ ~entry.success
    /\ \/ entry.path = "catalogFails"
       \/ entry.fault \in {"readPrevious", "writeBeforeDelete"}

PlaceholderRow(unit) ==
    [imageName    |-> unit.imageName,
     architecture |-> unit.architecture,
     stream       |-> unit.stream,
     version      |-> "N/A",
     cveId        |-> "ERROR: Not found in registry",
     severity     |-> NoSeverity,
     healthIndex  |-> 0,
     healthStatus |-> UNKNOWN]

\* C27: a unit whose build was not found passes one placeholder record to
\* writeCVEData, and when that write completes the sheet holds for the
\* unit's combination that one row and no other (status Unknown, score 0);
\* when the write fails no placeholder row is there.  In both cases the
\* Historical sheet and the queue of events are as the unit found them, and
\* the unit is counted as failed, with an entry in the errors list.
C27_NotFoundWritesPlaceholder ==
    (unitTrace # <<>> /\ LastUnit.path = "notFound") =>
        /\ LastUnit.fault = "none" =>
              /\ LastUnit.written = <<(<<NotFoundRecord>>)>>
              /\ RowsOf(cveData, LastUnit.unit) = <<PlaceholderRow(LastUnit.unit)>>
        /\ LastUnit.fault # "none" =>
              RowsOf(cveData, LastUnit.unit) \in
                  {RowsOf(LastUnit.cveBefore, LastUnit.unit), <<>>}
        /\ historical = LastUnit.historicalSheet
        /\ Len(notificationEvents) = LastUnit.eventsBefore
        /\ ~LastUnit.success
        /\ monitoringRun.imagesFailed = Len(FailedSeq)
        /\ errors # <<>>
        /\ errors[Len(errors)].imageId = UnitKey(LastUnit.unit)

\* the build of a combination an earlier run recorded as Critical, with two
\* rows, is not found; a notification service is there
C27_Witness ==
    /\ unitTrace # <<>>
    /\ LastUnit.path = "notFound"
    /\ LastUnit.fault = "none"
    /\ notificationService
    /\ Len(RowsOf(LastUnit.cveBefore, LastUnit.unit)) = 2
    /\ RecordedStatus(LastUnit.unit, Len(historical)) = CRITICAL
    /\ RowsOf(cveData, LastUnit.unit) = <<PlaceholderRow(LastUnit.unit)>>

\* C28 as stated: at the end of a run the CVE Data sheet holds a row for the
\* combination of every unit processed.
C28_EveryCoordinateHasRows ==
    pc = "done" =>
        \A i \in 1..Len(unitTrace) : RowsOf(cveData, unitTrace[i].unit) # <<>>

\* C29: after a writeCVEData that completed, the rows of the combination
\* are one row per record given, in order, with the record's id and severity
\* (no row of an earlier write is left), and the rows of the other
\* combinations are the ones that were there, in the same order.
C29_FullReplace ==
    (unitTrace # <<>> /\ LastUnit.written # <<>>) =>
        LET records == LastUnit.written[1]
            rows == RowsOf(cveData, LastUnit.unit)
        IN  /\ Len(rows) = Len(records)
            /\ \A k \in 1..Len(rows) :
                  /\ rows[k].cveId = records[k].cveId
                  /\ rows[k].severity = records[k].severity
                  /\ rows[k].healthIndex = rows[1].healthIndex
                  /\ rows[k].healthStatus = rows[1].healthStatus
                  /\ rows[k].version = rows[1].version
            /\ OtherRows(cveData, LastUnit.unit) =
                   OtherRows(LastUnit.cveBefore, LastUnit.unit)

\* one record is written for a combination that had two rows, in a sheet
\* that holds rows of other combinations
C29_Witness ==
    /\ unitTrace # <<>>
    /\ LastUnit.written # <<>>
    /\ Len(LastUnit.written[1]) = 1
    /\ Len(RowsOf(LastUnit.cveBefore, LastUnit.unit)) = 2
    /\ OtherRows(LastUnit.cveBefore, LastUnit.unit) # <<>>
    /\ Len(RowsOf(cveData, LastUnit.unit)) = 1

\* C30 as stated: every unit a run processes appends one Historical row.
C30_OneHistoricalRowPerUnit ==
    unitTrace # <<>> => Len(historical) = LastUnit.historicalBefore + 1

\* C30, amended: a unit that succeeds appends one Historical row, of its
\* combination, and a unit that fails appends none; the rows that were there
\* are still there, unchanged and in place.
C30_OneHistoricalRowPerSuccess ==
    unitTrace # <<>> =>
        /\ LastUnit.success =>
              /\ Len(historical) = Len(LastUnit.historicalSheet) + 1
              /\ SameCombination(historical[Len(historical)],
                     LastUnit.unit.imageName, LastUnit.unit.architecture,
                     LastUnit.unit.stream)
        /\ ~LastUnit.success => Len(historical) = Len(LastUnit.historicalSheet)
        /\ SubSeq(historical, 1, Len(LastUnit.historicalSheet)) =
               LastUnit.historicalSheet

\* a unit succeeded whose combination already had a Historical row, in a
\* sheet of four rows
C30_Witness ==
    /\ unitTrace # <<>>
    /\ LastUnit.success
    /\ Len(LastUnit.historicalSheet) = 4
    /\ RowsOf(LastUnit.historicalSheet, LastUnit.unit) # <<>>
    /\ Len(historical) = 5

\* the streams and architectures a Config row stands for
StreamsOf(row) == IF row.streamCell = <<>> THEN <<"latest">> ELSE row.streamCell

ArchitecturesOf(row) ==
    IF row.architectureCell = <<>> THEN <<"amd64">> ELSE row.architectureCell

\* a row of the sheet that names an image and is enabled
Contributes(row) == row.imageName # "" /\ row.enabled

\* the pairs of one stream with the architectures, in order
RECURSIVE PairsOfStream(_, _, _)
PairsOfStream(name, stream, archs) ==
    IF archs = <<>> THEN <<>>
    ELSE <<[imageName |-> name, stream |-> stream, architecture |-> Head(archs)]>>
         \o PairsOfStream(name, stream, Tail(archs))

RECURSIVE PairsOfRow(_, _, _)
PairsOfRow(name, streamList, archs) ==
    IF streamList = <<>> THEN <<>>
    ELSE PairsOfStream(name, Head(streamList), archs)
         \o PairsOfRow(name, Tail(streamList), archs)

RECURSIVE ExpectedUnits(_)
ExpectedUnits(sheet) ==
    IF sheet = <<>> THEN <<>>
    ELSE (IF Contributes(Head(sheet))
          THEN PairsOfRow(Head(sheet).imageName, StreamsOf(Head(sheet)),
                          ArchitecturesOf(Head(sheet)))
          ELSE <<>>)
         \o ExpectedUnits(Tail(sheet))

RECURSIVE ExpectedCount(_)
ExpectedCount(sheet) ==
    IF sheet = <<>> THEN 0
    ELSE (IF Contributes(Head(sheet))
          THEN Len(StreamsOf(Head(sheet))) * Len(ArchitecturesOf(Head(sheet)))
          ELSE 0)
         + ExpectedCount(Tail(sheet))

\* C31: once the configuration is read, the units of the run are, for the
\* enabled rows in the order of the sheet, the pairs of each stream with each
\* architecture, streams outer and architectures inner; the units are
\* processed in that order, each once, and at the end imagesProcessed is the
\* sum over the enabled rows of streams x architectures.
C31_UnitsAreRowsTimesPairs ==
    (pc # "start" /\ ConfigWasRead) =>
        /\ units = ExpectedUnits(configSheet)
        /\ Len(unitTrace) = unitIndex - 1
        /\ \A i \in 1..Len(unitTrace) : unitTrace[i].unit = units[i]
        /\ pc = "done" =>
              /\ Len(unitTrace) = Len(units)
              /\ monitoringRun.imagesProcessed = ExpectedCount(configSheet)

\* the run of the row with two streams and two architectures is over
C31_Witness ==
    /\ pc = "done"
    /\ ConfigWasRead
    /\ configSheet = <<OseCliRow>>
    /\ monitoringRun.imagesProcessed = 4
    /\ unitTrace[2].unit = [imageName |-> "openshift4/ose-cli",
                            stream |-> "4.9", architecture |-> "arm64"]
    /\ unitTrace[3].unit = [imageName |-> "openshift4/ose-cli",
                            stream |-> "latest", architecture |-> "amd64"]

SameCoordinate(a, b) ==
    /\ a.imageName = b.imageName
    /\ a.architecture = b.architecture
    /\ a.stream = b.stream

\* C32: the vulnerability queries of a unit carry the _id of the build
\* resolved for the unit's combination, which is not its digest and not the
\* id queried by a unit of another combination; the records the unit
\* scores, writes and reports are the ones the catalog holds for that build.
C32_QueriesCarryResolvedBuildId ==
    \A i \in 1..Len(unitTrace) :
        unitTrace[i].path = "scored" =>
            /\ unitTrace[i].queriedId = LatestImageOf(unitTrace[i].unit).imageId
            /\ unitTrace[i].queriedId # LatestImageOf(unitTrace[i].unit).dockerImageId
            /\ unitTrace[i].queriedId[1] = "_id"
            /\ \A j \in 1..Len(unitTrace) :
                  (unitTrace[j].path = "scored"
                       /\ ~SameCoordinate(unitTrace[j].unit, unitTrace[i].unit)) =>
                      unitTrace[j].queriedId # unitTrace[i].queriedId
            /\ unitTrace[i].written # <<>> =>
                  unitTrace[i].written = unitTrace[i].held
            /\ \A e \in EventsOfUnit(i) :
                  /\ notificationEvents[e].imageId = unitTrace[i].queriedId
                  /\ Len(notificationEvents[e].affectedCves) =
                        Len(unitTrace[i].held[1])
                  /\ \A k \in 1..Len(notificationEvents[e].affectedCves) :
                        notificationEvents[e].affectedCves[k] =
                            unitTrace[i].held[1][k].cveId

\* two units of different combinations have fetched, scored and written
\* the one record and the two records the catalog holds for their builds
C32_Witness ==
    /\ Len(unitTrace) >= 2
    /\ unitTrace[1].path = "scored" /\ unitTrace[2].path = "scored"
    /\ ~SameCoordinate(unitTrace[1].unit, unitTrace[2].unit)
    /\ unitTrace[1].written # <<>> /\ Len(unitTrace[1].written[1]) = 1
    /\ unitTrace[2].written # <<>> /\ Len(unitTrace[2].written[1]) = 2
    /\ unitTrace[1].queriedId # unitTrace[2].queriedId

\* the last Historical row of the unit's combination in the sheet, if any
LastRowOf(sheet, unit) ==
    LET rows == RowsOf(sheet, unit)
    IN  IF rows = <<>> THEN <<>> ELSE <<rows[Len(rows)]>>

NumberOf(records, sev) ==
    Cardinality({k \in 1..Len(records) : records[k].severity = sev})

\* the catalog holds for the unit's build what the last snapshot of the
\* combination recorded: the same version and the same vulnerabilities
SameAsRecorded(entry) ==
    LET last == LastRowOf(entry.historicalSheet, entry.unit)
        records == entry.held[1]
    IN  /\ last # <<>>
        /\ last[1].version = LatestImageOf(entry.unit).version
        /\ last[1].totalCves = Len(records)
        /\ last[1].criticalCount = NumberOf(records, Critical)
        /\ last[1].importantCount = NumberOf(records, Important)
        /\ last[1].moderateCount = NumberOf(records, Moderate)
        /\ last[1].lowCount = NumberOf(records, Low)

\* C34: a unit that finds, for its combination, the snapshot of a unit that
\* succeeded on the same build and the same vulnerabilities (in the run
\* before, or earlier in this run) has changed = false, queues no event,
\* and when it succeeds its Historical row says "No change".
C34_SecondRunNoChange ==
    (unitTrace # <<>> /\ LastUnit.path = "scored" /\ LastUnit.detected
         /\ SameAsRecorded(LastUnit)) =>
        /\ ~LastUnit.statusChanged
        /\ LastUnit.previousStatus = LastUnit.currentStatus
        /\ Len(notificationEvents) = LastUnit.eventsBefore
        /\ EventsOfUnit(Len(unitTrace)) = {}
        /\ LastUnit.success =>
              /\ Len(historical) = Len(LastUnit.historicalSheet) + 1
              /\ historical[Len(historical)].statusChange = <<"No change">>

\* with a notification service, the last of four units finds the Critical
\* snapshot of the run before and the same two records in the catalog
C34_Witness ==
    /\ Len(unitTrace) = 4
    /\ notificationService
    /\ LastUnit.success
    /\ LastUnit.historicalBefore >= 4
    /\ SameAsRecorded(LastUnit)
    /\ LastUnit.currentStatus = CRITICAL
    /\ historical[Len(historical)].statusChange = <<"No change">>

\* C35 as stated: every event handed to the notification service belongs to
\* a unit that the run counted as succeeded.
C35_SentEventsOfSucceededUnits ==
    \A e \in 1..Len(notificationEvents) :
        e < sendIndex => unitTrace[notificationEvents[e].unit].success

(***************************************************************************)
(* Properties of NotificationService.send                                  *)
(***************************************************************************)
ConfiguredChannels(config) ==
    (IF HasEmailNotifier(config) THEN <<"email">> ELSE <<>>)
    \o (IF HasSlackNotifier(config) THEN <<"slack">> ELSE <<>>)

ChannelsTried == [i \in 1..Len(channelResults) |-> channelResults[i].channel]

\* the severity of the record the builds hold under a CVE id
SeverityOfCve(id) ==
    LET held == UNION {{records[i] : i \in 1..Len(records)} :
                          records \in SendRecordLists}
    IN  (CHOOSE record \in held : record.cveId = id).severity

\* C36: with the threshold Critical or Important, an event whose current
\* status is Healthy comes back from send with the outcome Skipped, and no
\* channel was tried for it.
C36_HealthyEventSkipped ==
    (/\ sendState = "returned"
     /\ serviceConfig[1].severityThreshold \in {<<Critical>>, <<Important>>}
     /\ sendEvent[1].currentStatus = HEALTHY) =>
        /\ sendEvent[1].deliveryStatus = "Skipped"
        /\ channelResults = <<>>
        /\ sendEvent[1].channels = <<>>

\* a recovery from Critical of an image that still has a Low CVE, both
\* channels configured, threshold Important
C36_Witness ==
    /\ sendState = "returned"
    /\ serviceConfig[1].severityThreshold = <<Important>>
    /\ ConfiguredChannels(serviceConfig[1]) = <<"email", "slack">>
    /\ sendEvent[1].currentStatus = HEALTHY
    /\ sendEvent[1].previousStatus = CRITICAL
    /\ sendEvent[1].affectedCves # <<>>
    /\ sendEvent[1].deliveryStatus = "Skipped"

\* C37 as stated: with the threshold Moderate and a channel configured, an
\* event with a status change is sent exactly when the image has a CVE of
\* severity Critical, Important or Moderate.
C37_ModerateFilterBySeverity ==
    (/\ sendState = "returned"
     /\ serviceConfig[1].severityThreshold = <<Moderate>>
     /\ ConfiguredChannels(serviceConfig[1]) # <<>>
     /\ sendEvent[1].previousStatus # sendEvent[1].currentStatus) =>
        (channelResults # <<>> <=>
            \E i \in 1..Len(sendEvent[1].affectedCves) :
                SeverityOfCve(sendEvent[1].affectedCves[i])
                    \in {Critical, Important, Moderate})

RECURSIVE Occurrences(_, _)
Occurrences(records, sev) ==
    IF records = <<>> THEN 0
    ELSE (IF Head(records).severity = sev THEN 1 ELSE 0)
         + Occurrences(Tail(records), sev)

ExpectedPenalty(records) ==
    20 * Occurrences(records, Critical) + 10 * Occurrences(records, Important)
    + 5 * Occurrences(records, Moderate) + Occurrences(records, Low)

\* C1: the score is max(0, 100 - (20*critical + 10*important + 5*moderate
\* + low)) over the records of each severity, None counting for nothing, and
\* so always lies in 0..100.
C1_ScoreFormula ==
    healthIndex # NoHealthIndex =>
        /\ healthIndex.score =
              (IF ExpectedPenalty(cveRecords) >= 100 THEN 0
               ELSE 100 - ExpectedPenalty(cveRecords))
        /\ healthIndex.score \in 0..100

\* six Critical records and nothing else: the penalty is 120 and the score 0
C1_Witness ==
    /\ healthIndex # NoHealthIndex
    /\ Len(cveRecords) = 6
    /\ Occurrences(cveRecords, Critical) = 6
    /\ healthIndex.score = 0

C3_StatusFromScoreBand ==
    healthIndex # NoHealthIndex =>
        healthIndex.status =
            (IF healthIndex.score >= 80 THEN HEALTHY
             ELSE IF healthIndex.score >= 50 THEN AT_RISK
             ELSE CRITICAL)

====
